---- MODULE Spec2Model ----
(***************************************************************************)
(* A model of github.com/eluv-io/errors-go: the Error value, its ordered   *)
(* field store, kind resolution through the cause chain, the formatter,    *)
(* and the order-preserving JSON encoding and decoding.                    *)
(*                                                                         *)
(* Go values (interface{}) are records tagged with their dynamic type in   *)
(* field t.  Strings are TLA+ strings; text is built with \o exactly as    *)
(* the code concatenates it.                                               *)
(***************************************************************************)
EXTENDS Integers, Sequences, FiniteSets, TLC

VARIABLES
    err,                      \* the *Error under construction
    last,                     \* the last call made on err: [op, args]
    PrintStacktrace,          \* errors.PrintStacktrace
    MarshalStacktrace,        \* errors.MarshalStacktrace
    MarshalStacktraceAsArray, \* errors.MarshalStacktraceAsArray
    DefaultFieldOrder,        \* errors.DefaultFieldOrder (nil is <<>>)
    out,                      \* the text returned by the last FormatError call
    doc,                      \* the JSON document returned by the last MarshalJSON call
    fields,                   \* the map[orderedKey]valOrMap filled by the last json.Unmarshal
    dec,                      \* the *Error filled by the last UnmarshalJSON call
    keyPosCounter,            \* unmarshal.go: the global counter of decoded keys
    calls,                    \* the number of calls made so far
    am,                       \* an orderedMap that is used on its own
    clone,                    \* the *Error returned by the last ClearStacktrace call
    other,                    \* a second error, given to Match and Append
    res,                      \* the value returned by the last call
    heap,                     \* the Error structs and the backing arrays of their stores
    procs                     \* the decoders that run concurrently

vars == <<err, last, PrintStacktrace, MarshalStacktrace, MarshalStacktraceAsArray,
          DefaultFieldOrder, out, doc, fields, dec, keyPosCounter, calls,
          am, clone, other, res, heap, procs>>

----------------------------------------------------------------------------
(* Go values                                                               *)

Nil == [t |-> "nil"]
StringV(s) == [t |-> "string", s |-> s]
IntV(n) == [t |-> "int", n |-> n]
FloatV(n) == [t |-> "float64", n |-> n]
SliceV(a) == [t |-> "slice", a |-> a]
KindV(k) == [t |-> "Kind", s |-> k]
DefaultKindV(k) == [t |-> "DefaultKind", s |-> k]

\* An error that is not an *Error: stderrors.New(text), or fmt.Errorf("...%w", wraps)
Opaque(text, wraps) == [t |-> "error", text |-> text, wraps |-> wraps]

\* errors.Str
Str(text) == Opaque(text, Nil)

K == [Other |-> "unclassified error", Invalid |-> "invalid", IO |-> "I/O error",
      NotExist |-> "item does not exist", Timeout |-> "operation timed out"]

\* &Error{}
ZeroError == [t |-> "Error", op |-> "", kind |-> "", defaultKind |-> "", cause |-> Nil,
              fields |-> <<>>, pcs |-> <<>>, trace |-> <<>>, ignoreStack |-> FALSE,
              unmarshalledStacktrace |-> ""]

Separator == ":\n\t"

IsError(v) == v.t = "Error"
IsErrorIface(v) == v.t \in {"Error", "error"}

----------------------------------------------------------------------------
(* Call stacks: a frame is [fn, line, pc]                                  *)

Frame(fn, line, pc) == [fn |-> fn, line |-> line, pc |-> pc]

equivalent(c1, c2) == c1.fn = c2.fn /\ c1.line = c2.line

\* variant: no frame is taken as shared
commonTailNone(c1, c2, i) == i

RECURSIVE commonTail(_, _, _)
commonTail(c1, c2, i) ==
    IF i < Len(c1) /\ i < Len(c2) /\ equivalent(c1[Len(c1) - i], c2[Len(c2) - i])
    THEN commonTail(c1, c2, i + 1)
    ELSE i

\* variant: the leading frames of c1 that are not shared, then all of c2
combineCallStacksFirstLeads(c1, c2) ==
    IF c1 = <<>> THEN c2
    ELSE IF c2 = <<>> THEN c1
    ELSE SubSeq(c1, 1, Len(c1) - commonTail(c1, c2, 0)) \o c2

combineCallStacks(c1, c2) ==
    IF c1 = <<>> THEN c2
    ELSE IF c2 = <<>> THEN c1
    ELSE SubSeq(c2, 1, Len(c2) - commonTail(c1, c2, 0)) \o c1

\* e.trace once coalesceStack has looked at it: the frames of e.pcs if the
\* trace was not computed before (the frames of the model hold no runtime
\* frame that TrimRuntime would drop)
lazyTrace(e) == IF e.trace = <<>> /\ e.pcs # <<>> THEN e.pcs ELSE e.trace

\* the call stack that e.coalesceStack() returns
RECURSIVE coalesceStack(_)
coalesceStack(e) ==
    IF IsError(e.cause) THEN combineCallStacks(lazyTrace(e), coalesceStack(e.cause))
    ELSE lazyTrace(e)

\* the Error after e.coalesceStack(): the call has stored the trace of e and of
\* every Error that follows it as a direct cause
RECURSIVE coalesced(_)
coalesced(e) ==
    [e EXCEPT !.trace = lazyTrace(e),
              !.cause = IF IsError(@) THEN coalesced(@) ELSE @]

\* variant: only the stack of e itself counts
hasStackOwn(e) == e.pcs # <<>>

RECURSIVE hasStack(_)
hasStack(e) ==
    IF e.pcs # <<>> THEN TRUE
    ELSE IF IsError(e.cause) THEN hasStack(e.cause)
    ELSE FALSE

----------------------------------------------------------------------------
(* Decimal text of an integer, as fmt.Sprint prints it                     *)

Digit(d) == CASE d = 0 -> "0" [] d = 1 -> "1" [] d = 2 -> "2" [] d = 3 -> "3"
              [] d = 4 -> "4" [] d = 5 -> "5" [] d = 6 -> "6" [] d = 7 -> "7"
              [] d = 8 -> "8" [] OTHER -> "9"

RECURSIVE Itoa(_)
Itoa(n) == IF n < 0 THEN "-" \o Itoa(0 - n)
           ELSE IF n < 10 THEN Digit(n)
           ELSE Itoa(n \div 10) \o Digit(n % 10)

----------------------------------------------------------------------------
(* Kind resolution                                                         *)

\* errors.As(err, &cause) with cause a *Error: the first *Error on the Unwrap chain
RECURSIVE As(_)
As(v) == IF v.t = "Error" THEN v
         ELSE IF v.t = "error" THEN As(v.wraps)
         ELSE Nil

\* variant: the explicit kind of the cause is taken before the Error's own
RECURSIVE effectiveKindCauseFirst(_, _)
effectiveKindCauseFirst(e, def) ==
    LET c == As(e.cause)
    IN  IF c # Nil /\ c.kind # "" THEN c.kind
        ELSE IF e.kind # "" THEN e.kind
        ELSE LET d == IF e.defaultKind # "" THEN e.defaultKind
                      ELSE IF def = "" THEN K.Other
                      ELSE def
             IN  IF c # Nil /\ effectiveKindCauseFirst(c, d) # ""
                 THEN effectiveKindCauseFirst(c, d)
                 ELSE d

\* variant: the Error's own default kind is not consulted
RECURSIVE effectiveKindNoDefault(_, _)
effectiveKindNoDefault(e, def) ==
    IF e.kind # "" THEN e.kind
    ELSE LET d == IF def = "" THEN K.Other ELSE def
             c == As(e.cause)
         IN  IF e.cause # Nil /\ c # Nil /\ effectiveKindNoDefault(c, d) # ""
             THEN effectiveKindNoDefault(c, d)
             ELSE d

\* variant: a default kind received from the parent is kept
RECURSIVE effectiveKindParentDefault(_, _)
effectiveKindParentDefault(e, def) ==
    IF e.kind # "" THEN e.kind
    ELSE LET d == IF def # "" /\ def # K.Other THEN def
                  ELSE IF e.defaultKind # "" THEN e.defaultKind
                  ELSE K.Other
             c == As(e.cause)
         IN  IF e.cause # Nil /\ c # Nil /\ effectiveKindParentDefault(c, d) # ""
             THEN effectiveKindParentDefault(c, d)
             ELSE d

\* variant: only a cause that is itself an *Error is descended into
RECURSIVE effectiveKindDirect(_, _)
effectiveKindDirect(e, def) ==
    IF e.kind # "" THEN e.kind
    ELSE LET d == IF e.defaultKind # "" THEN e.defaultKind
                  ELSE IF def = "" THEN K.Other
                  ELSE def
         IN  IF IsError(e.cause) /\ effectiveKindDirect(e.cause, d) # ""
             THEN effectiveKindDirect(e.cause, d)
             ELSE d

RECURSIVE effectiveKind(_, _)
effectiveKind(e, def) ==
    IF e.kind # "" THEN e.kind
    ELSE LET d == IF e.defaultKind # "" THEN e.defaultKind
                  ELSE IF def = "" THEN K.Other
                  ELSE def
             c == As(e.cause)
         IN  IF e.cause # Nil /\ c # Nil /\ effectiveKind(c, d) # ""
             THEN effectiveKind(c, d)
             ELSE d

Kind(e) == effectiveKind(e, K.Other)

isZero(e) == e.op = "" /\ e.kind = "" /\ e.cause = Nil /\ Len(e.fields) = 0

----------------------------------------------------------------------------
(* Text: fmt.Sprint, toString and the formatter                            *)

unreferenced(key, fieldOrder) ==
    IF key = "stacktrace" /\ ~PrintStacktrace THEN FALSE
    ELSE \A i \in 1..Len(fieldOrder) : fieldOrder[i] # key

RECURSIVE GetFrom(_, _, _)
GetFrom(a, key, i) ==
    IF i + 1 <= Len(a)
    THEN IF a[i] = key THEN [val |-> a[i + 1], ok |-> TRUE]
         ELSE GetFrom(a, key, i + 2)
    ELSE [val |-> Nil, ok |-> FALSE]

Get(a, key) == GetFrom(a, key, 1)

\* e.field(key)
field(e, key) ==
    CASE key = "op" -> IF e.op # "" THEN [val |-> StringV(e.op), ok |-> TRUE]
                       ELSE [val |-> Nil, ok |-> FALSE]
      [] key = "kind" -> [val |-> KindV(Kind(e)), ok |-> TRUE]
      [] key = "cause" -> IF e.cause # Nil THEN [val |-> e.cause, ok |-> TRUE]
                          ELSE [val |-> Nil, ok |-> FALSE]
      [] OTHER -> Get(e.fields, key)

\* variant: kind is written ahead of op
printOtherFieldsKindFirst(e, fieldOrder) ==
    LET RECURSIVE others(_)
        others(i) ==
            IF i + 1 <= Len(e.fields)
            THEN (IF unreferenced(e.fields[i], fieldOrder)
                  THEN << <<e.fields[i], e.fields[i + 1]>> >> ELSE <<>>) \o others(i + 2)
            ELSE <<>>
    IN  (IF unreferenced("kind", fieldOrder)
         THEN << <<"kind", KindV(Kind(e))>> >> ELSE <<>>)
        \o (IF e.op # "" /\ unreferenced("op", fieldOrder)
            THEN << <<"op", StringV(e.op)>> >> ELSE <<>>)
        \o others(1)
        \o (IF e.cause # Nil /\ unreferenced("cause", fieldOrder)
            THEN << <<"cause", e.cause>> >> ELSE <<>>)

\* the closure printOtherFields of writeFields: the calls writeKV(key, val) it makes
printOtherFields(e, fieldOrder) ==
    LET RECURSIVE others(_)
        others(i) ==
            IF i + 1 <= Len(e.fields)
            THEN (IF unreferenced(e.fields[i], fieldOrder)
                  THEN << <<e.fields[i], e.fields[i + 1]>> >> ELSE <<>>) \o others(i + 2)
            ELSE <<>>
    IN  (IF e.op # "" /\ unreferenced("op", fieldOrder)
         THEN << <<"op", StringV(e.op)>> >> ELSE <<>>)
        \o (IF unreferenced("kind", fieldOrder)
            THEN << <<"kind", KindV(Kind(e))>> >> ELSE <<>>)
        \o others(1)
        \o (IF e.cause # Nil /\ unreferenced("cause", fieldOrder)
            THEN << <<"cause", e.cause>> >> ELSE <<>>)

\* writeKV(key, val) for the field that e.field(key) returns, if any
writeField(key, f) == IF f.ok THEN << <<key, f.val>> >> ELSE <<>>

\* variant: the wildcard is passed over, the other fields come at the end
RECURSIVE writeFieldsLoopOthersLast(_, _, _, _)
writeFieldsLoopOthersLast(e, fieldOrder, i, printOthers) ==
    IF i > Len(fieldOrder)
    THEN IF printOthers THEN printOtherFields(e, fieldOrder) ELSE <<>>
    ELSE (IF fieldOrder[i] = "" THEN <<>>
          ELSE writeField(fieldOrder[i], field(e, fieldOrder[i])))
         \o writeFieldsLoopOthersLast(e, fieldOrder, i + 1, printOthers)

\* the loop over fieldOrder and the final call of printOtherFields, which
\* writes only when printOthers is still set
RECURSIVE writeFieldsLoop(_, _, _, _)
writeFieldsLoop(e, fieldOrder, i, printOthers) ==
    IF i > Len(fieldOrder) \/ fieldOrder[i] = ""
    THEN (IF printOthers THEN printOtherFields(e, fieldOrder) ELSE <<>>)
         \o (IF i > Len(fieldOrder) THEN <<>>
             ELSE writeFieldsLoop(e, fieldOrder, i + 1, FALSE))
    ELSE writeField(fieldOrder[i], field(e, fieldOrder[i]))
         \o writeFieldsLoop(e, fieldOrder, i + 1, printOthers)

\* e.writeFields(fieldOrder, writeKV): the sequence of calls writeKV(key, val)
writeFields(e, fieldOrder) == writeFieldsLoop(e, fieldOrder, 1, TRUE)

pad(b, str) == IF Len(b) = 0 THEN b ELSE b \o str

\* one line per frame of the coalesced trace (the simple tab form)
printStack(e) ==
    LET trace == coalesceStack(e)
        RECURSIVE lines(_)
        lines(i) == IF i > Len(trace) THEN ""
                    ELSE "\t" \o trace[i].fn \o ":" \o Itoa(trace[i].line) \o "\n" \o lines(i + 1)
    IN  lines(1)

RECURSIVE Sprint(_)
RECURSIVE Error_toString(_, _, _)
RECURSIVE writeKeyVal(_, _, _, _)
RECURSIVE writeAll(_, _, _, _)

\* fmt.Sprint(val)
Sprint(val) ==
    CASE val.t = "nil" -> "<nil>"
      [] val.t = "string" -> val.s
      [] val.t = "int" -> Itoa(val.n)
      [] val.t = "float64" -> Itoa(val.n)
      [] val.t = "Kind" -> val.s
      [] val.t = "DefaultKind" -> val.s
      [] val.t = "error" -> val.text
      [] val.t = "Error" -> Error_toString(val, TRUE, <<>>)
      [] val.t = "slice" ->
            LET RECURSIVE elems(_)
                elems(i) == IF i > Len(val.a) THEN ""
                            ELSE (IF i > 1 THEN " " ELSE "") \o Sprint(val.a[i]) \o elems(i + 1)
            IN  "[" \o elems(1) \o "]"

writeKeyVal(e, b, key, val) ==
    IF key = "cause" /\ IsError(e.cause)
    THEN IF ~isZero(e.cause)
         THEN pad(b, " ") \o "cause" \o Separator \o Error_toString(e.cause, FALSE, <<>>)
         ELSE b
    ELSE pad(b, " ") \o key \o " [" \o Sprint(val) \o "]"

\* the callback of toString applied to each call writeKV(key, val) of writeFields
writeAll(e, kvs, b, i) ==
    IF i > Len(kvs) THEN b
    ELSE writeAll(e, kvs, writeKeyVal(e, b, kvs[i][1], kvs[i][2]), i + 1)

Error_toString(e, printStacktrace, fieldOrder) ==
    IF e = Nil THEN ""
    ELSE writeAll(e, writeFields(e, IF Len(fieldOrder) = 0 THEN DefaultFieldOrder
                                    ELSE fieldOrder), "", 1)
         \o (IF printStacktrace /\ PrintStacktrace /\ ~e.ignoreStack /\ hasStack(e)
             THEN "\n" \o printStack(e)
             ELSE "")

\* e.Error()
Error(e) == Error_toString(e, TRUE, <<>>)

ErrorNoTrace(e) == Error_toString(e, FALSE, <<>>)

FormatError(e, printStk, fieldOrder) == Error_toString(e, printStk, fieldOrder)

\* util toString(val)
toString(val) == IF val = Nil THEN ""
                 ELSE IF val.t = "string" THEN val.s
                 ELSE Sprint(val)

----------------------------------------------------------------------------
(* orderedMap: a flat array key, value, key, value, ...                    *)

RECURSIVE SetFrom(_, _, _, _)
SetFrom(a, key, val, i) ==
    IF i + 1 <= Len(a)
    THEN IF a[i] = key THEN [a EXCEPT ![i + 1] = val]
         ELSE SetFrom(a, key, val, i + 2)
    ELSE a \o <<key, val>>

\* variant: the pair is appended without looking for the key
SetAppend(a, key, val) == a \o <<key, val>>

Set(a, key, val) == SetFrom(a, key, val, 1)

\* variant: the entry is removed but the loop goes on from the same index,
\* so that the entry after a removed one is removed too
RECURSIVE DeleteFromNext(_, _, _)
DeleteFromNext(a, key, i) ==
    IF i + 1 <= Len(a)
    THEN IF a[i] = key
         THEN SubSeq(a, 1, i - 1) \o SubSeq(a, i + 4, Len(a))
         ELSE DeleteFromNext(a, key, i + 2)
    ELSE a

RECURSIVE DeleteFrom(_, _, _)
DeleteFrom(a, key, i) ==
    IF i + 1 <= Len(a)
    THEN IF a[i] = key
         THEN DeleteFrom(SubSeq(a, 1, i - 1) \o SubSeq(a, i + 2, Len(a)), key, i + 2)
         ELSE DeleteFrom(a, key, i + 2)
    ELSE a

Delete(a, key) == DeleteFrom(a, key, 1)

Clear(a) == <<>>

\* variant: the pairs are added at the end without looking for their keys
RECURSIVE appendPairsRaw(_, _, _)
appendPairsRaw(a, kvs, i) ==
    IF i + 1 <= Len(kvs)
    THEN appendPairsRaw(a \o <<toString(kvs[i]), kvs[i + 1]>>, kvs, i + 2)
    ELSE a

\* the loop of Append over the pairs of kvs
RECURSIVE appendPairs(_, _, _)
appendPairs(a, kvs, i) ==
    IF i + 1 <= Len(kvs)
    THEN appendPairs(Set(a, toString(kvs[i]), kvs[i + 1]), kvs, i + 2)
    ELSE a

\* variant: a last key without a value is dropped
appendMissingDropped(a, kvs) == a

\* variant: a last key without a value is stored without a value
appendMissingKeyOnly(a, kvs) ==
    IF Len(kvs) % 2 = 1 THEN Append(a, toString(kvs[Len(kvs)])) ELSE a

\* the end of Append: a last key without a value is set to "<missing>"
appendMissing(a, kvs) ==
    IF Len(kvs) % 2 = 1
    THEN Set(a, toString(kvs[Len(kvs)]), StringV("<missing>"))
    ELSE a

orderedMapAppend(a, kvs) == appendMissing(appendPairs(a, kvs, 1), kvs)

----------------------------------------------------------------------------
(* The setters of Error                                                    *)

\* WithOp without its test for the empty string
WithOpAlways(e, op) == [e EXCEPT !.op = op]

WithOp(e, op) == IF op # "" THEN [e EXCEPT !.op = op] ELSE e

WithKind(e, kind) == IF kind # "" THEN [e EXCEPT !.kind = kind] ELSE e

WithDefaultKind(e, kind) == [e EXCEPT !.defaultKind = kind]

WithCause(e, c) == IF c # Nil THEN [e EXCEPT !.cause = c] ELSE e

\* the loop of With over args, idx counted from 1
RECURSIVE WithLoop(_, _, _)
WithLoop(e, args, idx) ==
    IF idx > Len(args) THEN e
    ELSE LET key == args[idx]
             hasVal == idx + 1 <= Len(args)
             val == args[idx + 1]
         IN  CASE key = Nil -> WithLoop(e, args, idx + 1)
               [] key.t = "Kind" -> WithLoop(WithKind(e, key.s), args, idx + 1)
               [] key.t = "DefaultKind" -> WithLoop(WithDefaultKind(e, key.s), args, idx + 1)
               [] IsErrorIface(key) -> WithLoop(WithCause(e, key), args, idx + 1)
               [] hasVal /\ key = StringV("op") ->
                    WithLoop(IF val.t = "string" THEN WithOp(e, val.s) ELSE e, args, idx + 2)
               [] hasVal /\ key = StringV("kind") ->
                    WithLoop(WithKind(e, IF val.t = "Kind" THEN val.s ELSE toString(val)),
                             args, idx + 2)
               [] hasVal /\ key = StringV("cause") ->
                    WithLoop(IF val = Nil THEN e
                             ELSE WithCause(e, IF IsErrorIface(val) THEN val
                                               ELSE Str(toString(val))),
                             args, idx + 2)
               [] OTHER ->
                    WithLoop([e EXCEPT !.fields =
                                 orderedMapAppend(@, IF hasVal THEN <<key, val>>
                                                     ELSE <<key>>)],
                             args, IF hasVal THEN idx + 2 ELSE idx + 1)

\* a single []interface{} argument is taken as the argument list
unwrapSlice(args) == IF Len(args) = 1 /\ args[1].t = "slice" THEN args[1].a ELSE args

With(e, args) == WithLoop(e, unwrapSlice(args), 1)

\* NoTrace once a single slice argument is unwrapped
NoTraceArgs(a) ==
    With(IF Len(a) > 0 /\ a[1].t = "string" THEN WithOp(ZeroError, a[1].s) ELSE ZeroError,
         IF Len(a) > 0 /\ a[1].t = "string" THEN Tail(a) ELSE a)

NoTrace(args) == NoTraceArgs(unwrapSlice(args))

\* E called where gostack.Callers(2) returns callers
E(args, callers) == [NoTrace(args) EXCEPT !.pcs = callers]

----------------------------------------------------------------------------
(* JSON documents: null, strings, numbers, arrays, and objects whose       *)
(* members <<name, value>> are kept in document order                      *)

JNull == [t |-> "null"]
JString(s) == [t |-> "jstring", s |-> s]
JNumber(n) == [t |-> "jnumber", n |-> n]
JArray(a) == [t |-> "jarray", a |-> a]
JObject(members) == [t |-> "jobject", members |-> members]

\* input that is not a JSON document: text that the scanner rejects; members
\* are the members of a truncated object that precede the point of failure
JInvalid(text, members) == [t |-> "invalid", text |-> text, members |-> members]

\* the error that json.Unmarshal returns
JSONError(b) ==
    IF b.t = "invalid" THEN Str("invalid JSON: " \o b.text)
    ELSE Str("json: cannot unmarshal " \o b.t \o " into Go value of type errors.Error")

\* stacktraceToArray applied to the text printStack writes: the trimmed lines
stacktraceToArray(e) ==
    LET trace == coalesceStack(e)
    IN  [i \in 1..Len(trace) |-> StringV(trace[i].fn \o ":" \o Itoa(trace[i].line))]

convertForJSONMarshalling(obj) ==
    IF obj.t = "error" THEN StringV(obj.text) ELSE obj

RECURSIVE jsonMarshal(_)
RECURSIVE marshalFields(_, _)
RECURSIVE marshalFieldsCauseStack(_, _)

\* json.Marshal(val)
jsonMarshal(val) ==
    CASE val.t = "nil" -> JNull
      [] val.t = "string" -> JString(val.s)
      [] val.t = "int" -> JNumber(val.n)
      [] val.t = "float64" -> JNumber(val.n)
      [] val.t = "Kind" -> JString(val.s)
      [] val.t = "DefaultKind" -> JString(val.s)
      [] val.t = "error" -> JObject(<<>>)
      [] val.t = "Error" -> marshalFields(val, TRUE)
      [] val.t = "slice" -> JArray([i \in 1..Len(val.a) |-> jsonMarshal(val.a[i])])

\* variant: a cause is encoded as the outermost Error is, with its stack
marshalFieldsCauseStack(e, marshalStack) ==
    LET kvs == writeFields(e, DefaultFieldOrder)
        kv(key, val) ==
            IF key = "cause"
            THEN IF val.t = "Error" THEN <<key, marshalFieldsCauseStack(val, marshalStack)>>
                 ELSE <<key, jsonMarshal(convertForJSONMarshalling(val))>>
            ELSE <<key, jsonMarshal(val)>>
        members == [i \in 1..Len(kvs) |-> kv(kvs[i][1], kvs[i][2])]
    IN  IF marshalStack /\ MarshalStacktrace /\ ~e.ignoreStack /\ hasStack(e)
        THEN JObject(members \o
                     << <<"stacktrace",
                          IF MarshalStacktraceAsArray
                          THEN jsonMarshal(SliceV(stacktraceToArray(e)))
                          ELSE JString(printStack(e))>> >>)
        ELSE JObject(members)

marshalFields(e, marshalStack) ==
    LET kvs == writeFields(e, DefaultFieldOrder)
        kv(key, val) ==
            IF key = "cause"
            THEN IF val.t = "Error" THEN <<key, marshalFields(val, FALSE)>>
                 ELSE <<key, jsonMarshal(convertForJSONMarshalling(val))>>
            ELSE <<key, jsonMarshal(val)>>
        members == [i \in 1..Len(kvs) |-> kv(kvs[i][1], kvs[i][2])]
    IN  IF marshalStack /\ MarshalStacktrace /\ ~e.ignoreStack /\ hasStack(e)
        THEN JObject(members \o
                     << <<"stacktrace",
                          IF MarshalStacktraceAsArray
                          THEN jsonMarshal(SliceV(stacktraceToArray(e)))
                          ELSE JString(printStack(e))>> >>)
        ELSE JObject(members)

MarshalJSON(e) == marshalFields(e, TRUE)

----------------------------------------------------------------------------
(* What formatting and encoding leave behind: printStack calls             *)
(* coalesceStack, which stores the trace of every Error it goes through    *)

RECURSIVE afterSprint(_)
RECURSIVE afterToString(_, _, _)
RECURSIVE afterJsonMarshal(_)
RECURSIVE afterMarshalFields(_, _)

\* val after fmt.Sprint(val), which calls Error() of an *Error
afterSprint(val) ==
    CASE val.t = "Error" -> afterToString(val, TRUE, <<>>)
      [] val.t = "slice" -> SliceV([i \in 1..Len(val.a) |-> afterSprint(val.a[i])])
      [] OTHER -> val

\* e after e.toString(printStacktrace, fieldOrder...): writeKeyVal has
\* formatted the values it wrote, and printStack has run if the stack is
\* printed
afterToString(e, printStacktrace, fieldOrder) ==
    IF e = Nil THEN Nil
    ELSE LET kvs == writeFields(e, IF Len(fieldOrder) = 0 THEN DefaultFieldOrder
                                   ELSE fieldOrder)
             written == {kvs[i][1] : i \in 1..Len(kvs)}
             e1 == [e EXCEPT
                      !.fields = [i \in 1..Len(@) |->
                                    IF i % 2 = 0 /\ @[i - 1] \in written
                                    THEN afterSprint(@[i]) ELSE @[i]],
                      !.cause = IF "cause" \in written /\ IsError(@) /\ ~isZero(@)
                                THEN afterToString(@, FALSE, <<>>) ELSE @]
         IN  IF printStacktrace /\ PrintStacktrace /\ ~e.ignoreStack /\ hasStack(e)
             THEN coalesced(e1)
             ELSE e1

\* val after json.Marshal(val), which calls MarshalJSON() of an *Error
afterJsonMarshal(val) ==
    CASE val.t = "Error" -> afterMarshalFields(val, TRUE)
      [] val.t = "slice" -> SliceV([i \in 1..Len(val.a) |-> afterJsonMarshal(val.a[i])])
      [] OTHER -> val

\* e after e.marshalFields(marshalStack)
afterMarshalFields(e, marshalStack) ==
    LET kvs == writeFields(e, DefaultFieldOrder)
        written == {kvs[i][1] : i \in 1..Len(kvs)}
        e1 == [e EXCEPT
                 !.fields = [i \in 1..Len(@) |->
                               IF i % 2 = 0 /\ @[i - 1] \in written
                               THEN afterJsonMarshal(@[i]) ELSE @[i]],
                 !.cause = IF "cause" \in written /\ IsError(@)
                           THEN afterMarshalFields(@, FALSE) ELSE @]
    IN  IF marshalStack /\ MarshalStacktrace /\ ~e.ignoreStack /\ hasStack(e)
        THEN coalesced(e1)
        ELSE e1

----------------------------------------------------------------------------
(* Decoding.  A map[orderedKey]valOrMap is [t |-> "map", entries |-> S],   *)
(* S an unordered set of [key, pos, v]; a valOrMap is [val, m].            *)

GoMap(entries) == [t |-> "map", entries |-> entries]

\* json.Unmarshal into an interface{}
RECURSIVE decodeValue(_)
decodeValue(j) ==
    CASE j.t = "null" -> Nil
      [] j.t = "jstring" -> StringV(j.s)
      [] j.t = "jnumber" -> FloatV(j.n)
      [] j.t = "jarray" -> SliceV([i \in 1..Len(j.a) |-> decodeValue(j.a[i])])

\* variant: the counter is read and not incremented
UnmarshalTextLoad(text, counter) == [key |-> text, pos |-> counter]

\* orderedKey.UnmarshalText: the next value of the global counter
UnmarshalText(text, counter) == [key |-> text, pos |-> counter + 1]

\* json.Unmarshal of an object into a map[orderedKey]valOrMap: for each member in
\* document order the decoder stores the value (valOrMap.UnmarshalJSON) and
\* then converts the member name (orderedKey.UnmarshalText)
RECURSIVE decodeMembers(_, _, _, _)
decodeMembers(members, i, entries, counter) ==
    IF i > Len(members) THEN [m |-> GoMap(entries), counter |-> counter]
    ELSE LET j == members[i][2]
             sub == IF j.t = "jobject" THEN decodeMembers(j.members, 1, {}, counter)
                    ELSE [m |-> Nil, counter |-> counter]
             v == IF j.t = "jobject" THEN [val |-> Nil, m |-> sub.m]
                  ELSE [val |-> decodeValue(j), m |-> Nil]
             k == UnmarshalText(members[i][1], sub.counter)
         IN  decodeMembers(members, i + 1,
                           entries \cup {[key |-> k.key, pos |-> k.pos, v |-> v]}, k.pos)

\* variant: a later key sorts first
LessLater(a, b) == a.pos > b.pos

\* ordereKeys.Less
Less(a, b) == a.pos < b.pos

\* sort.Sort(keys)
RECURSIVE sortKeys(_)
sortKeys(S) ==
    IF S = {} THEN <<>>
    ELSE LET first == CHOOSE a \in S : \A b \in S \ {a} : Less(a, b)
         IN  <<first>> \o sortKeys(S \ {first})

\* the text of a "stacktrace" member
stacktraceText(val) ==
    IF val.t = "slice"
    THEN LET RECURSIVE join(_)
             join(i) == IF i > Len(val.a) THEN ""
                        ELSE (IF i > 1 THEN "\n" ELSE "") \o "\t" \o toString(val.a[i])
                             \o join(i + 1)
         IN  join(1)
    ELSE toString(val)

\* variant: a member "stacktrace" is passed to With like any other member
RECURSIVE unmarshalFromAllFields(_, _)
unmarshalFromAllFields(e, f) ==
    LET keys == sortKeys(f.entries)
        valOrMap_Get(s) == IF s.m # Nil THEN unmarshalFromAllFields(ZeroError, s.m)
                           ELSE s.val
        RECURSIVE replay(_, _)
        replay(x, i) ==
            IF i > Len(keys) THEN x
            ELSE replay(With(x, <<StringV(keys[i].key), valOrMap_Get(keys[i].v)>>), i + 1)
    IN  replay(e, 1)

RECURSIVE unmarshalFrom(_, _)
unmarshalFrom(e, f) ==
    LET keys == sortKeys(f.entries)
        \* valOrMap.Get
        valOrMap_Get(s) == IF s.m # Nil THEN unmarshalFrom(ZeroError, s.m) ELSE s.val
        RECURSIVE replay(_, _)
        replay(x, i) ==
            IF i > Len(keys) THEN x
            ELSE LET val == valOrMap_Get(keys[i].v)
                 IN  IF keys[i].key = "stacktrace"
                     THEN replay([x EXCEPT !.unmarshalledStacktrace = stacktraceText(val)],
                                 i + 1)
                     ELSE replay(With(x, <<StringV(keys[i].key), val>>), i + 1)
    IN  replay(e, 1)

\* variant: the members that precede the point of failure are decoded
UnmarshalJSONUnchecked(e, b, counter) ==
    IF b.t \in {"jobject", "invalid"}
    THEN LET d == decodeMembers(b.members, 1, {}, counter)
         IN  [e |-> unmarshalFrom(e, d.m), fields |-> d.m, counter |-> d.counter,
              failed |-> b.t = "invalid"]
    ELSE IF b.t = "null"
    THEN [e |-> e, fields |-> GoMap({}), counter |-> counter, failed |-> FALSE]
    ELSE [e |-> e, fields |-> GoMap({}), counter |-> counter, failed |-> TRUE]

\* e.UnmarshalJSON(b): [e, fields, counter, failed].  json.Unmarshal scans the
\* whole input before it decodes any of it, and fails on a document that is
\* not an object before unmarshalFrom is called
UnmarshalJSON(e, b, counter) ==
    IF b.t = "jobject"
    THEN LET d == decodeMembers(b.members, 1, {}, counter)
         IN  [e |-> unmarshalFrom(e, d.m), fields |-> d.m, counter |-> d.counter,
              failed |-> FALSE]
    ELSE IF b.t = "null"
    THEN [e |-> e, fields |-> GoMap({}), counter |-> counter, failed |-> FALSE]
    ELSE [e |-> e, fields |-> GoMap({}), counter |-> counter, failed |-> TRUE]

----------------------------------------------------------------------------
(* Bounds and inputs                                                       *)

\* the number of calls made on one Error in the specification Spec
MaxCalls == 2

\* where the model calls E: the frames gostack.Callers(2) returns there
Callers == <<Frame("caller", 10, 1), Frame("main", 20, 2)>>

EOF == Str("EOF")

\* the arguments of one call: none, one token, or one key and its value
Args(T) == {<<>>} \cup {<<a>> : a \in T} \cup {<<a, b>> : a, b \in T}

BuildTokens == {StringV("op"), StringV("kind"), StringV("cause"), StringV("key1"),
                IntV(7), Nil, KindV(K.IO), EOF}

\* argument lists of the constructors taken from TestE and TestE_invalidArgs
TestArgs == {<<StringV("operation"), KindV(K.IO), EOF, StringV("key1"), StringV("val1"),
               StringV("key2"), StringV("val2")>>,
             <<Str("some error"), Nil, StringV("arg1"), IntV(7), StringV("arg2")>>}

\* the inputs of TestError_UnmarshalJSON_failures: empty, not JSON, an array,
\* and an object that breaks off in its second member
MalformedDocs ==
    {JInvalid("", <<>>),
     JInvalid("invalid json", <<>>),
     JArray(<<JString("an"), JString("array")>>),
     JInvalid("{\"op\":\"op1\",\"cause\":[\"an\",\"invalid array}",
              << <<"op", JString("op1")>> >>)}

\* documents of one member, as a peer may send them
BuildDocs == {JObject(<< <<k, v>> >>) :
                k \in {"op", "kind", "cause", "key1"},
                v \in {JString("a"), JNumber(7), JNull}}
             \cup MalformedDocs

Call(op, args) == [op |-> op, args |-> args]

----------------------------------------------------------------------------
(* The state machine of one Error: it is constructed and then changed by   *)
(* the With-style setters and by decoding into it                          *)

RestInit ==
    /\ am = <<>>
    /\ clone = Nil
    /\ other = Nil
    /\ res = Nil
    /\ heap = Nil
    /\ procs = <<>>

ConfigInit ==
    /\ PrintStacktrace = TRUE
    /\ MarshalStacktrace = TRUE
    /\ MarshalStacktraceAsArray = TRUE
    /\ DefaultFieldOrder = <<>>

Init ==
    /\ err = Nil
    /\ last = Call("none", <<>>)
    /\ ConfigInit
    /\ out = ""
    /\ doc = Nil
    /\ fields = GoMap({})
    /\ dec = Nil
    /\ keyPosCounter = 0
    /\ calls = 0
    /\ RestInit

\* the variables that the state machines of an Error leave alone
rest == <<am, clone, other, res, heap, procs>>

config == <<PrintStacktrace, MarshalStacktrace, MarshalStacktraceAsArray, DefaultFieldOrder>>
results == <<out, doc, fields, dec>>

DoNoTrace(T) ==
    /\ err = Nil
    /\ \E args \in Args(T) \cup TestArgs :
         /\ err' = NoTrace(args)
         /\ last' = Call("NoTrace", args)
    /\ calls' = calls + 1
    /\ UNCHANGED <<rest, config, results, keyPosCounter>>

DoE(T) ==
    /\ err = Nil
    /\ \E args \in Args(T) \cup TestArgs :
         /\ err' = E(args, Callers)
         /\ last' = Call("E", args)
    /\ calls' = calls + 1
    /\ UNCHANGED <<rest, config, results, keyPosCounter>>

DoWith(T, max) ==
    /\ err # Nil
    /\ calls < max
    /\ \E args \in Args(T) :
         /\ err' = With(err, args)
         /\ last' = Call("With", args)
    /\ calls' = calls + 1
    /\ UNCHANGED <<rest, config, results, keyPosCounter>>

DoWithOp(max) ==
    /\ err # Nil
    /\ calls < max
    /\ \E op \in {"", "operation"} :
         /\ err' = WithOp(err, op)
         /\ last' = Call("WithOp", <<StringV(op)>>)
    /\ calls' = calls + 1
    /\ UNCHANGED <<rest, config, results, keyPosCounter>>

DoWithKind(max) ==
    /\ err # Nil
    /\ calls < max
    /\ \E kind \in {"", K.IO, K.Invalid} :
         /\ err' = WithKind(err, kind)
         /\ last' = Call("WithKind", <<KindV(kind)>>)
    /\ calls' = calls + 1
    /\ UNCHANGED <<rest, config, results, keyPosCounter>>

DoWithDefaultKind(max) ==
    /\ err # Nil
    /\ calls < max
    /\ \E kind \in {"", K.NotExist, K.Timeout} :
         /\ err' = WithDefaultKind(err, kind)
         /\ last' = Call("WithDefaultKind", <<KindV(kind)>>)
    /\ calls' = calls + 1
    /\ UNCHANGED <<rest, config, results, keyPosCounter>>

DoWithCause(max) ==
    /\ err # Nil
    /\ calls < max
    /\ \E c \in {Nil, EOF} :
         /\ err' = WithCause(err, c)
         /\ last' = Call("WithCause", <<c>>)
    /\ calls' = calls + 1
    /\ UNCHANGED <<rest, config, results, keyPosCounter>>

\* json.Unmarshal(b, err)
DoUnmarshalInto(max) ==
    /\ err # Nil
    /\ calls < max
    /\ \E b \in BuildDocs :
         LET r == UnmarshalJSON(err, b, keyPosCounter)
         IN  /\ err' = r.e
             /\ fields' = r.fields
             /\ keyPosCounter' = r.counter
             /\ res' = IF r.failed THEN JSONError(b) ELSE Nil
             /\ last' = Call("UnmarshalJSON", <<b>>)
    /\ calls' = calls + 1
    /\ UNCHANGED <<procs, config, out, doc, dec, am, clone, other, heap>>

Next ==
    \/ DoNoTrace(BuildTokens)
    \/ DoE(BuildTokens)
    \/ DoWith(BuildTokens, MaxCalls)
    \/ DoWithOp(MaxCalls)
    \/ DoWithKind(MaxCalls)
    \/ DoWithDefaultKind(MaxCalls)
    \/ DoWithCause(MaxCalls)
    \/ DoUnmarshalInto(MaxCalls)

Spec == Init /\ [][Next]_vars

----------------------------------------------------------------------------
(* Kind resolution over cause chains: an Error is constructed, given kinds *)
(* and default kinds, and wrapped as the cause of the next Error           *)

\* the number of calls that build one chain in the specification SpecKind
MaxKindCalls == 3

\* fmt.Errorf("wrapped: %w", e)
Wrapped(e) == Opaque("wrapped: " \o ErrorNoTrace(e), e)

KindTokens == {KindV(K.IO), KindV(K.Invalid), DefaultKindV(K.NotExist),
               DefaultKindV(K.Timeout), EOF}

\* errors.NoTrace(args...) where args may hold err, or an error wrapping err
DoWrap ==
    /\ calls < MaxKindCalls
    /\ \E args \in Args(KindTokens \cup
                        (IF err = Nil THEN {} ELSE {err, Wrapped(err)})) :
         /\ err' = NoTrace(args)
         /\ last' = Call("NoTrace", args)
    /\ calls' = calls + 1
    /\ UNCHANGED <<rest, config, results, keyPosCounter>>

NextKind ==
    \/ DoWrap
    \/ DoWithKind(MaxKindCalls)
    \/ DoWithDefaultKind(MaxKindCalls)
    \/ DoWithCause(MaxKindCalls)

SpecKind == Init /\ [][NextKind]_vars

----------------------------------------------------------------------------
(* Claims about the field store and the With-style setters                 *)

StructuralNames == {"op", "kind", "cause"}

\* the keys of a store, in store order
Keys(a) == [i \in 1..(Len(a) \div 2) |-> a[2 * i - 1]]

HasKey(a, key) == \E i \in 1..(Len(a) \div 2) : a[2 * i - 1] = key

\* no store of e, of its causes or of the Errors among its field values holds
\* a structural name as a key
RECURSIVE NoStructuralKeys(_)
NoStructuralKeys(v) ==
    IF v.t = "Error"
    THEN /\ \A i \in 1..(Len(v.fields) \div 2) :
              /\ v.fields[2 * i - 1] \notin StructuralNames
              /\ NoStructuralKeys(v.fields[2 * i])
         /\ NoStructuralKeys(v.cause)
    ELSE IF v.t = "error" THEN NoStructuralKeys(v.wraps)
    ELSE TRUE

\* C9: the Field Store never holds an entry whose key is "op", "kind" or
\* "cause", after any sequence of E/NoTrace/With calls and after any decode.
C9_NoStructuralKeyInStore == err # Nil => NoStructuralKeys(err)

\* b is a with the value of key replaced at key's position, or, when a does
\* not hold key, a with the one entry <<key, val>> added at the end
Upserted(a, key, val, b) ==
    IF HasKey(a, key)
    THEN \E i \in 1..(Len(a) \div 2) :
            /\ a[2 * i - 1] = key
            /\ Len(b) = Len(a)
            /\ \A j \in 1..Len(a) : b[j] = IF j = 2 * i THEN val ELSE a[j]
    ELSE /\ Len(b) = Len(a) + 2
         /\ SubSeq(b, 1, Len(a)) = a
         /\ b[Len(a) + 1] = key
         /\ b[Len(a) + 2] = val

UpsertKeys == {"key1", "key2", "arg2", "7", "new"}
UpsertVals == {StringV("v1.override"), IntV(7), Nil}

\* Template(fields...): the closure keeps the fields
Template(tfields) == tfields

\* t.Add(fields...)
TemplateFn_Add(t, tfields) == t \o tfields

\* t(f...): E(append(fields, f...)...).dropStackFrames(1)
TemplateFn_Call(t, f) ==
    LET e == E(t \o f, Callers)
    IN  IF Len(e.pcs) > 1 THEN [e EXCEPT !.pcs = Tail(@), !.trace = <<>>] ELSE e

\* a template of three context fields to which the pair key, val is added
AddedTo(key, val) ==
    TemplateFn_Add(Template(<<StringV("test"), StringV("key0"), IntV(0), StringV(key),
                              StringV("v1"), StringV("new"), Nil>>),
                   <<StringV(key), val>>)

\* C10: Set(key, value) replaces the value at the position of an existing key
\* and leaves the order and all other entries unchanged, and otherwise adds
\* exactly one entry at the end; With and template Add do the same for a
\* context key.  The templates are built before the Error is, Set and With
\* are applied to every store that the Error comes to hold.
C10_SetUpsertsInPlace ==
    \A key \in UpsertKeys, val \in UpsertVals :
        IF err = Nil
        THEN TemplateFn_Call(AddedTo(key, val), <<>>).fields =
                IF key = "new" THEN <<"key0", IntV(0), "new", val>>
                ELSE <<"key0", IntV(0), key, val, "new", Nil>>
        ELSE /\ Upserted(err.fields, key, val, Set(err.fields, key, val))
             /\ Upserted(err.fields, key, val, With(err, <<StringV(key), val>>).fields)
             /\ With(err, <<StringV(key), val>>) =
                   [err EXCEPT !.fields = Set(err.fields, key, val)]

\* an upsert by With has acted on a store of two entries: the first entry
\* keeps its place and has the new value
C10_Witness ==
    /\ last = Call("With", <<StringV("key1"), IntV(7)>>)
    /\ err # Nil
    /\ err.fields = <<"key1", IntV(7), "key2", StringV("val2")>>

----------------------------------------------------------------------------
(* Formatting: an Error is built once and rendered with a field order      *)

\* the most context fields of an Error that is formatted
MaxFields == 2

\* the longest field order passed to FormatError
MaxOrder == 2

Range(f) == {f[i] : i \in DOMAIN f}

Distinct(f) == \A i, j \in DOMAIN f : i # j => f[i] # f[j]

\* the sequences of pairwise distinct elements of S, no longer than n
DistinctSeqs(S, n) == {f \in UNION {[1..m -> S] : m \in 0..n} : Distinct(f)}

FormatKeys == {"a", "b", "stacktrace"}

FormatVal(key) == CASE key = "a" -> StringV("x")
                    [] key = "b" -> IntV(7)
                    [] OTHER -> StringV("trace")

RECURSIVE KeyVals(_)
KeyVals(keys) == IF Len(keys) = 0 THEN <<>>
                 ELSE <<StringV(Head(keys)), FormatVal(Head(keys))>> \o KeyVals(Tail(keys))

InnerErr == NoTrace(<<StringV("read"), KindV(K.Invalid), StringV("a"), IntV(1)>>)

\* errors.NoTrace(op).With(kind, cause, key, val, ..., unpaired)
FormatErrs ==
    {With(NoTrace(o), k \o c \o KeyVals(f) \o t) :
        o \in {<<>>, <<StringV("get")>>},
        k \in {<<>>, <<KindV(K.IO)>>, <<DefaultKindV(K.NotExist)>>},
        c \in {<<>>, <<EOF>>, <<NoTrace(<<>>)>>, <<InnerErr>>},
        f \in DistinctSeqs(FormatKeys, MaxFields),
        t \in {<<>>, <<StringV("op")>>, <<StringV("cause")>>}}

OrderNames == {"op", "kind", "cause", "", "a", "stacktrace", "zz"}

\* the field orders of TestError_FormatError are among them
Orders == DistinctSeqs(OrderNames, MaxOrder)
          \cup {<<"op", "kind", "b", "", "cause">>, <<"b", "a">>}

InitFormat ==
    /\ PrintStacktrace \in BOOLEAN
    /\ MarshalStacktrace = TRUE
    /\ MarshalStacktraceAsArray = TRUE
    /\ DefaultFieldOrder = <<>>
    /\ err \in FormatErrs
    /\ last = Call("none", <<>>)
    /\ out = ""
    /\ doc = Nil
    /\ fields = GoMap({})
    /\ dec = Nil
    /\ keyPosCounter = 0
    /\ calls = 0
    /\ RestInit

\* s := err.Error()
DoError ==
    /\ last.op = "none"
    /\ out' = Error(err)
    /\ err' = afterToString(err, TRUE, <<>>)
    /\ last' = Call("Error", <<>>)
    /\ UNCHANGED <<rest, config, doc, fields, dec, keyPosCounter, calls>>

\* s := err.FormatError(false, fieldOrder...)
DoFormatError ==
    /\ last.op = "none"
    /\ \E fieldOrder \in Orders :
         /\ out' = FormatError(err, FALSE, fieldOrder)
         /\ err' = afterToString(err, FALSE, fieldOrder)
         /\ last' = Call("FormatError", fieldOrder)
    /\ UNCHANGED <<rest, config, doc, fields, dec, keyPosCounter, calls>>

NextFormat == DoError \/ DoFormatError

SpecFormat == InitFormat /\ [][NextFormat]_vars

----------------------------------------------------------------------------
(* JSON: an Error is encoded and the document decoded into a fresh Error,  *)
(* or a document that a peer sends is decoded                              *)

\* the most members of an object that a peer sends
MaxMembers == 2

\* the number of times one document is decoded
MaxDecodes == 2

MemberNames == {"op", "kind", "cause", "a", "b", "stacktrace"}

MemberValues == {JString("x"), JNumber(7), JNull,
                 JObject(<< <<"z", JNumber(1)>>, <<"op", JString("in")>>,
                            <<"a", JString("y")>> >>),
                 JObject(<< <<"stacktrace", JString("remote")>>,
                            <<"b", JNumber(2)>> >>),
                 JArray(<<JString("frame1"), JString("frame2")>>)}

\* the objects of up to MaxMembers members, names may repeat
Docs == {JObject(m) :
           m \in UNION {[1..n -> MemberNames \X MemberValues] : n \in 0..MaxMembers}}
        \cup MalformedDocs

\* where a cause is constructed: in a function that the caller calls
InnerCallers == <<Frame("inner", 5, 3), Frame("caller", 9, 4), Frame("main", 20, 2)>>

\* causes that are Errors: with a stack, with a cause of their own, and with
\* a context field that is keyed "stacktrace"
InnerErrs ==
    {E(<<StringV("connect"), KindV(K.IO), Str("network unreachable"),
         StringV("k1"), StringV("v1")>>, InnerCallers),
     E(<<StringV("transport"), StringV("stacktrace"), StringV("remote"),
         NoTrace(<<StringV("connect"), StringV("stacktrace"), StringV("remote")>>)>>,
       InnerCallers),
     NoTrace(<<StringV("transport"), NoTrace(<<StringV("connect"), EOF>>)>>)}

\* createNestedError, and Errors like it
NestedErrs == {E(<<StringV("send email"), c>>, Callers) : c \in InnerErrs}
              \cup {NoTrace(<<StringV("send email"), c, StringV("k2"), IntV(7)>>) :
                       c \in InnerErrs}

\* the values of DefaultFieldOrder under which TestError_MarshalJSON encodes
JSONOrders == {<<>>, <<"kind", "op", "", "cause">>}

\* the Errors that are encoded: built without and with a stack trace
JSONErrs == FormatErrs \cup {E(a, Callers) : a \in TestArgs} \cup NestedErrs

InitJSON ==
    /\ PrintStacktrace \in BOOLEAN
    /\ err \in JSONErrs \cup {Nil}
    /\ MarshalStacktrace \in IF err = Nil THEN {TRUE} ELSE BOOLEAN
    /\ MarshalStacktraceAsArray = TRUE
    /\ DefaultFieldOrder \in IF err = Nil THEN {<<>>} ELSE JSONOrders
    /\ doc \in IF err = Nil THEN Docs ELSE {Nil}
    /\ last = Call("none", <<>>)
    /\ out = ""
    /\ fields = GoMap({})
    /\ dec = Nil
    /\ keyPosCounter = 0
    /\ calls = 0
    /\ RestInit

\* b, _ := json.Marshal(err)
DoMarshalJSON ==
    /\ err # Nil
    /\ doc = Nil
    /\ doc' = MarshalJSON(err)
    /\ err' = afterMarshalFields(err, TRUE)
    /\ last' = Call("MarshalJSON", <<>>)
    /\ UNCHANGED <<rest, config, out, fields, dec, keyPosCounter, calls>>

\* var dec Error; json.Unmarshal(b, &dec)
DoUnmarshalJSON ==
    /\ doc # Nil
    /\ calls < MaxDecodes
    /\ LET r == UnmarshalJSON(ZeroError, doc, keyPosCounter)
       IN  /\ dec' = r.e
           /\ fields' = r.fields
           /\ keyPosCounter' = r.counter
           /\ res' = IF r.failed THEN JSONError(doc) ELSE Nil
    /\ last' = Call("UnmarshalJSON", <<>>)
    /\ calls' = calls + 1
    /\ UNCHANGED <<procs, err, config, out, doc, am, clone, other, heap>>

NextJSON == DoMarshalJSON \/ DoUnmarshalJSON

SpecJSON == InitJSON /\ [][NextJSON]_vars

----------------------------------------------------------------------------
(* Claims about kind resolution                                            *)

\* e and the Errors below it that are causes of one another directly
RECURSIVE StructuredChain(_)
StructuredChain(e) ==
    <<e>> \o (IF IsError(e.cause) THEN StructuredChain(e.cause) ELSE <<>>)

\* e and the Errors below it that kind resolution visits: the cause, or the
\* first Error that the cause wraps
RECURSIVE KindChain(_)
KindChain(e) ==
    <<e>> \o (IF As(e.cause) # Nil THEN KindChain(As(e.cause)) ELSE <<>>)

NoExplicitKind(ch) == \A i \in 1..Len(ch) : ch[i].kind = ""

\* C3: if a structured Error on the chain from e down through its structured
\* causes has an explicit kind, Kind(e) is the explicit kind of the outermost
\* such Error, whatever default kinds are set in the chain.
C3_OutermostExplicitKindWins ==
    err # Nil =>
        LET ch == StructuredChain(err)
        IN  \A i \in 1..Len(ch) :
                (ch[i].kind # "" /\ \A j \in 1..(i - 1) : ch[j].kind = "")
                    => Kind(err) = ch[i].kind

\* an explicit kind of a cause has been resolved past the default kind of the
\* Error that wraps it, with a third Error below
C3_Witness ==
    /\ err # Nil
    /\ err.kind = "" /\ err.defaultKind = K.NotExist
    /\ IsError(err.cause) /\ err.cause.kind = K.IO
    /\ IsError(err.cause.cause) /\ err.cause.cause.kind = K.Invalid
    /\ Kind(err) = K.IO

\* C4 as stated: with no explicit kind in the chain, Kind(e) is the default
\* kind of the outermost Error if set, and K.Other otherwise.
C4_OutermostDefaultKind ==
    (err # Nil /\ NoExplicitKind(KindChain(err))) =>
        Kind(err) = IF err.defaultKind # "" THEN err.defaultKind ELSE K.Other

\* C4 amended: with no explicit kind in the chain and no default kind on any
\* Error below the outermost one, Kind(e) is the default kind of the
\* outermost Error if set, and K.Other otherwise. The chain is the one that
\* kind resolution follows: an Error that an opaque cause wraps belongs to it.
C4_OutermostDefaultKindIfNoneBelow ==
    LET ch == KindChain(err)
    IN  (/\ err # Nil
         /\ NoExplicitKind(ch)
         /\ \A i \in 2..Len(ch) : ch[i].defaultKind = "") =>
            Kind(err) = IF err.defaultKind # "" THEN err.defaultKind ELSE K.Other

\* the default kind of the outermost Error has been resolved over a cause
\* that sets no kind at all
C4_Witness ==
    /\ err # Nil
    /\ err.kind = "" /\ err.defaultKind = K.Timeout
    /\ IsError(err.cause) /\ err.cause.kind = "" /\ err.cause.defaultKind = ""
    /\ err.cause.cause = Nil
    /\ Kind(err) = K.Timeout

\* C5: with no explicit kind in the chain, Kind(e) is the default kind of the
\* innermost Error of the chain that has one, and the order in which a
\* default kind and a cause are passed to the constructor does not matter.
\* The chain is the one that kind resolution follows; where every cause is
\* an Error or the last one wraps none, it is the chain of structured causes.
C5_InnermostDefaultKindWins ==
    err # Nil =>
        LET ch == KindChain(err)
        IN  /\ NoExplicitKind(ch) =>
                  \A i \in 1..Len(ch) :
                      (ch[i].defaultKind # ""
                       /\ \A j \in (i + 1)..Len(ch) : ch[j].defaultKind = "")
                          => Kind(err) = ch[i].defaultKind
            /\ \A d \in {K.NotExist, K.Timeout} :
                  /\ Kind(NoTrace(<<DefaultKindV(d), err>>))
                        = Kind(NoTrace(<<err, DefaultKindV(d)>>))
                  /\ NoExplicitKind(ch) =>
                        Kind(NoTrace(<<err, DefaultKindV(d)>>)) =
                           IF \E i \in 1..Len(ch) : ch[i].defaultKind # ""
                           THEN Kind(err) ELSE d

\* the default kind of a cause has been resolved over another default kind
\* of the Error that wraps it and an unset one above that
C5_Witness ==
    /\ err # Nil
    /\ err.kind = "" /\ err.defaultKind = ""
    /\ IsError(err.cause) /\ err.cause.kind = "" /\ err.cause.defaultKind = K.Timeout
    /\ IsError(err.cause.cause) /\ err.cause.cause.kind = ""
    /\ err.cause.cause.defaultKind = K.NotExist
    /\ Kind(err) = K.NotExist

----------------------------------------------------------------------------
(* Claims about formatting                                                 *)

\* the text of one field
FieldText(key, val) == key \o " [" \o Sprint(val) \o "]"

\* the text of a cause: a structured cause is rendered on a line of its own
CauseText(c) == IF IsError(c) THEN "cause" \o Separator \o ErrorNoTrace(c)
                ELSE FieldText("cause", c)

\* texts separated by single spaces
RECURSIVE JoinText(_)
JoinText(ps) == IF Len(ps) = 0 THEN ""
                ELSE IF Len(ps) = 1 THEN ps[1]
                ELSE ps[1] \o " " \o JoinText(Tail(ps))

\* the context fields of e as pairs, in store order
RECURSIVE StorePairs(_)
StorePairs(a) == IF Len(a) < 2 THEN <<>>
                 ELSE << <<a[1], a[2]>> >> \o StorePairs(SubSeq(a, 3, Len(a)))

\* the attributes of e as fields: op if set, kind, the cause if set
Attributes(e) ==
    (IF e.op # "" THEN << <<"op", StringV(e.op)>> >> ELSE <<>>)
    \o << <<"kind", KindV(Kind(e))>> >>
    \o (IF e.cause # Nil THEN << <<"cause", e.cause>> >> ELSE <<>>)

\* every field of e: op if set, kind, the context fields, the cause if set
Present(e) ==
    SelectSeq(Attributes(e), LAMBDA kv : kv[1] # "cause")
    \o StorePairs(e.fields)
    \o SelectSeq(Attributes(e), LAMBDA kv : kv[1] = "cause")

\* the text of every field of kvs as the claims read them: each field has a text
RECURSIVE TextsAsClaimed(_)
TextsAsClaimed(kvs) ==
    IF Len(kvs) = 0 THEN <<>>
    ELSE <<IF Head(kvs)[1] = "cause" /\ IsErrorIface(Head(kvs)[2])
           THEN CauseText(Head(kvs)[2])
           ELSE FieldText(Head(kvs)[1], Head(kvs)[2])>> \o TextsAsClaimed(Tail(kvs))

\* the text of every field of kvs, where a field keyed "cause" of an Error
\* with a structured cause is the text of that cause, and a zero-valued
\* structured cause has no text
RECURSIVE Texts(_, _)
Texts(e, kvs) ==
    IF Len(kvs) = 0 THEN <<>>
    ELSE (IF Head(kvs)[1] = "cause" /\ IsError(e.cause)
          THEN (IF isZero(e.cause) THEN <<>> ELSE <<CauseText(e.cause)>>)
          ELSE <<FieldText(Head(kvs)[1], Head(kvs)[2])>>) \o Texts(e, Tail(kvs))

Shown(kv) == PrintStacktrace \/ kv[1] # "stacktrace"

\* C6 as stated: Error() emits op if set, kind, every context field in store
\* order, then the cause if set.
C6_DefaultOrderRendering ==
    last.op = "Error" => out = JoinText(TextsAsClaimed(Present(err)))

\* C6 amended: Error() emits op if set, kind, every context field in store
\* order except a field keyed "stacktrace" while stack printing is disabled,
\* then the cause if set; a zero-valued structured cause emits no text, and a
\* context field keyed "cause" of an Error with a structured cause is
\* rendered as that cause.
C6_DefaultOrderRenderingShown ==
    /\ last.op = "Error" => out = JoinText(Texts(err, SelectSeq(Present(err), Shown)))
    /\ ErrorNoTrace(NoTrace(<<StringV("download"), KindV(K.IO), EOF,
                              StringV("file"), StringV("f.txt")>>))
         = "op [download] kind [I/O error] file [f.txt] cause [EOF]"

\* Error() has rendered op, kind, two context fields and the cause
C6_Witness ==
    /\ last.op = "Error"
    /\ err.op = "get" /\ err.kind = K.IO /\ err.cause = EOF
    /\ err.fields = <<"a", StringV("x"), "b", IntV(7)>>
    /\ out = "op [get] kind [I/O error] a [x] b [7] cause [EOF]"

\* the field order that FormatError uses
OrderOf(fieldOrder) == IF Len(fieldOrder) = 0 THEN DefaultFieldOrder ELSE fieldOrder

\* C7: for a field order that does not name "cause" and an Error with a
\* cause, the cause is the last field emitted: the text is the text of the
\* same Error without the cause, followed by the cause.
C7_CauseLast ==
    (/\ last.op = "FormatError"
     /\ "cause" \notin Range(last.args)
     /\ err.cause # Nil
     /\ ~(IsError(err.cause) /\ isZero(err.cause))
     /\ ~HasKey(err.fields, "cause")) =>
        out = FormatError([err EXCEPT !.cause = Nil], FALSE, last.args)
                \o " " \o CauseText(err.cause)

\* the field named name: op, kind and cause name the attributes of e
Named(e, name) ==
    SelectSeq(IF name \in StructuralNames THEN Attributes(e) ELSE StorePairs(e.fields),
              LAMBDA kv : kv[1] = name)

\* the fields that the order does not name
Unnamed(e, order, shown(_)) ==
    SelectSeq(Present(e), LAMBDA kv : kv[1] \notin Range(order) /\ shown(kv))

RECURSIVE NamedFrom(_, _, _, _)
NamedFrom(e, order, i, j) ==
    IF i > j THEN <<>> ELSE Named(e, order[i]) \o NamedFrom(e, order, i + 1, j)

\* the position of the wildcard in order, or the position after its end
Wildcard(order) ==
    IF "" \in Range(order) THEN CHOOSE i \in DOMAIN order : order[i] = ""
    ELSE Len(order) + 1

\* the fields in the order of the claim: the named fields in the listed
\* sequence, the fields that are not named at the wildcard
Expected(e, order, shown(_)) ==
    NamedFrom(e, order, 1, Wildcard(order) - 1)
    \o Unnamed(e, order, shown)
    \o NamedFrom(e, order, Wildcard(order) + 1, Len(order))

AlwaysShown(kv) == TRUE

----------------------------------------------------------------------------
(* Claims about encoding and decoding                                      *)

\* C1: with stack printing disabled, the text of an Error equals the text of
\* the Error decoded from its encoding; stated for the Errors whose store
\* holds no key op, kind or cause.
C1_RoundTripRendering ==
    (/\ last.op = "UnmarshalJSON"
     /\ err # Nil
     /\ ~PrintStacktrace
     /\ NoStructuralKeys(err)) =>
        Error(err) = Error(dec)

\* the members of a document replayed in document order: each member is
\* passed to With, a nested object as the Error replayed from its members;
\* a member "stacktrace" is kept as the decoded stack trace instead
RECURSIVE ReplayInOrder(_, _, _)
ReplayInOrder(x, members, i) ==
    IF i > Len(members) THEN x
    ELSE LET name == members[i][1]
             j == members[i][2]
             val == IF j.t = "jobject" THEN ReplayInOrder(ZeroError, j.members, 1)
                    ELSE decodeValue(j)
         IN  IF name = "stacktrace"
             THEN ReplayInOrder([x EXCEPT !.unmarshalledStacktrace = stacktraceText(val)],
                                members, i + 1)
             ELSE ReplayInOrder(With(x, <<StringV(name), val>>), members, i + 1)

\* the keys of the decoded map m, sorted, are the member names in document
\* order, at every nesting level
RECURSIVE InDocumentOrder(_, _)
InDocumentOrder(m, members) ==
    LET keys == sortKeys(m.entries)
    IN  /\ Len(keys) = Len(members)
        /\ \A i \in 1..Len(keys) :
              /\ keys[i].key = members[i][1]
              /\ members[i][2].t = "jobject"
                    => InDocumentOrder(keys[i].v.m, members[i][2].members)

\* the names of the members that become context fields, each at its first
\* occurrence
RECURSIVE ContextNames(_, _)
ContextNames(members, i) ==
    IF i = 0 THEN <<>>
    ELSE LET before == ContextNames(members, i - 1)
             name == members[i][1]
         IN  IF name \in StructuralNames \cup {"stacktrace"} \/ name \in Range(before)
             THEN before ELSE Append(before, name)

\* C2: decoding a document into a fresh Error replays its members in the
\* order in which they appear in the document, at every nesting level, so
\* the context fields of the decoded Error are in document member order.
C2_DecodeReplaysDocumentOrder ==
    (last.op = "UnmarshalJSON" /\ doc.t = "jobject") =>
        /\ InDocumentOrder(fields, doc.members)
        /\ dec = ReplayInOrder(ZeroError, doc.members, 1)
        /\ Keys(dec.fields) = ContextNames(doc.members, Len(doc.members))

\* a document of two context members, the first one an object of three
\* members, has been decoded a second time
C2_Witness ==
    /\ last.op = "UnmarshalJSON"
    /\ calls = 2
    /\ doc.t = "jobject" /\ Len(doc.members) = 2
    /\ doc.members[1][1] = "b" /\ doc.members[1][2].t = "jobject"
    /\ doc.members[2] = <<"a", JString("x")>>
    /\ Keys(dec.fields) = <<"b", "a">>
    /\ Keys(dec.fields[2].fields) = <<"z", "a">>

----------------------------------------------------------------------------
(* The field store on its own: an orderedMap is filled by Append and Set   *)
(* and emptied by Delete and Clear                                         *)

\* the number of calls made on one orderedMap in the specification SpecMap
MaxMapCalls == 3

\* the longest argument list of one Append call
MaxAppendArgs == 3

MapTokens == {StringV("key1"), StringV("key2"), IntV(3)}

\* the argument lists of Append: every list of tokens up to MaxAppendArgs, and
\* the lists of TestOrderedMap_Append and TestOrderedMap_String
MapArgs == UNION {[1..n -> MapTokens] : n \in 0..MaxAppendArgs}
           \cup {<<StringV("a single value")>>, <<Nil, StringV("v4")>>}

MapKeys == {toString(k) : k \in MapTokens}

\* am.Append(kvs...)
DoAppend ==
    /\ calls < MaxMapCalls
    /\ \E kvs \in MapArgs :
         /\ am' = orderedMapAppend(am, kvs)
         /\ last' = Call("Append", kvs)
    /\ calls' = calls + 1
    /\ UNCHANGED <<procs, err, config, results, keyPosCounter, clone, other, res, heap>>

\* am.Set(key, val)
DoSet ==
    /\ calls < MaxMapCalls
    /\ \E key \in MapKeys, val \in MapTokens :
         /\ am' = Set(am, key, val)
         /\ last' = Call("Set", <<StringV(key), val>>)
    /\ calls' = calls + 1
    /\ UNCHANGED <<procs, err, config, results, keyPosCounter, clone, other, res, heap>>

\* am.Delete(key)
DoDelete ==
    /\ calls < MaxMapCalls
    /\ \E key \in MapKeys :
         /\ am' = Delete(am, key)
         /\ last' = Call("Delete", <<StringV(key)>>)
    /\ calls' = calls + 1
    /\ UNCHANGED <<procs, err, config, results, keyPosCounter, clone, other, res, heap>>

\* am.Clear()
DoClear ==
    /\ calls < MaxMapCalls
    /\ am' = Clear(am)
    /\ last' = Call("Clear", <<>>)
    /\ calls' = calls + 1
    /\ UNCHANGED <<procs, err, config, results, keyPosCounter, clone, other, res, heap>>

NextMap == DoAppend \/ DoSet \/ DoDelete \/ DoClear

SpecMap == Init /\ [][NextMap]_vars

----------------------------------------------------------------------------
(* Claims about Append and Delete                                          *)

\* the entries that Append is given: the complete pairs of kvs, and a last
\* key without a value paired with "<missing>"
Pairs(kvs) ==
    [i \in 1..((Len(kvs) + 1) \div 2) |->
        <<toString(kvs[2 * i - 1]),
          IF 2 * i <= Len(kvs) THEN kvs[2 * i] ELSE StringV("<missing>")>>]

\* the entries of a store
Entries(a) == [i \in 1..(Len(a) \div 2) |-> <<a[2 * i - 1], a[2 * i]>>]

RECURSIVE Flat(_)
Flat(ps) == IF Len(ps) = 0 THEN <<>> ELSE Head(ps) \o Flat(Tail(ps))

NoDuplicateKeys(a) == Distinct(Keys(a))

\* the keys of ps that are not in seen, each once, in the order of their
\* first occurrence
RECURSIVE NewKeys(_, _)
NewKeys(ps, seen) ==
    IF Len(ps) = 0 THEN <<>>
    ELSE IF Head(ps)[1] \in seen THEN NewKeys(Tail(ps), seen)
    ELSE <<Head(ps)[1]>> \o NewKeys(Tail(ps), seen \cup {Head(ps)[1]})

\* b is a after the entries ps were upserted one after the other: the keys of
\* a keep their places, the new keys follow in the order they were given,
\* and each key has the last value given for it, or else the value it had
UpsertedAll(a, ps, b) ==
    /\ Len(b) % 2 = 0
    /\ Keys(b) = Keys(a) \o NewKeys(ps, Range(Keys(a)))
    /\ \A i \in 1..(Len(b) \div 2) :
          LET given == {j \in 1..Len(ps) : ps[j][1] = b[2 * i - 1]}
          IN  b[2 * i] = IF given = {}
                         THEN a[2 * i]
                         ELSE ps[CHOOSE j \in given : \A k \in given : k <= j][2]

\* C11 as stated: Append adds one entry at the end of the store for each pair
\* it is given, whether or not the store holds the key already.
C11_AppendNeverDedups ==
    \A kvs \in MapArgs :
        Len(kvs) % 2 = 0 => orderedMapAppend(am, kvs) = am \o Flat(Pairs(kvs))

\* C11 amended: Append upserts each pair it is given, in order: a pair whose
\* key the store holds replaces the value at the key's place, a pair with a
\* new key adds one entry at the end, and no key comes to be held twice.
C11_AppendUpserts ==
    /\ NoDuplicateKeys(am)
    /\ \A kvs \in MapArgs :
          Len(kvs) % 2 = 0 =>
              /\ UpsertedAll(am, Pairs(kvs), orderedMapAppend(am, kvs))
              /\ (\A i \in 1..Len(Pairs(kvs)) : ~HasKey(am, Pairs(kvs)[i][1]))
                    /\ Distinct([i \in 1..Len(Pairs(kvs)) |-> Pairs(kvs)[i][1]])
                 => orderedMapAppend(am, kvs) = am \o Flat(Pairs(kvs))

\* Append was given a pair whose key the store held first of two: the value
\* is replaced at the key's place
C11_Witness ==
    /\ last = Call("Append", <<StringV("key1"), IntV(3)>>)
    /\ am = <<"key1", IntV(3), "key2", StringV("key1")>>

\* the keys of the argument list are context keys to With as they are to Append
ContextArgs(kvs) ==
    \A i \in 1..Len(kvs) :
        i % 2 = 1 => /\ kvs[i].t \in {"string", "int"}
                     /\ kvs[i] \notin {StringV(n) : n \in StructuralNames}

\* C12: Append of an odd number of tokens stores (upserts) the complete pairs
\* in order and then the last key with the value "<missing>"; With, and the
\* constructors through it, do the same with the context keys they are given.
C12_OddAppendStoresMissing ==
    \A kvs \in MapArgs :
        Len(kvs) % 2 = 1 =>
            LET b == orderedMapAppend(am, kvs)
                ps == Pairs(kvs)
            IN  /\ UpsertedAll(am, ps, b)
                /\ Get(b, toString(kvs[Len(kvs)])) =
                      [val |-> StringV("<missing>"), ok |-> TRUE]
                /\ (\A i \in 1..Len(ps) : ~HasKey(am, ps[i][1]))
                      /\ Distinct([i \in 1..Len(ps) |-> ps[i][1]])
                   => b = am \o Flat(SubSeq(ps, 1, Len(ps) - 1))
                             \o <<toString(kvs[Len(kvs)]), StringV("<missing>")>>
                /\ ContextArgs(kvs) =>
                      /\ With([ZeroError EXCEPT !.fields = am], kvs).fields = b
                      /\ E(<<StringV("operation")>> \o kvs, Callers).fields =
                            orderedMapAppend(<<>>, kvs)

\* Append was given one pair and a key without a value
C12_Witness ==
    /\ last = Call("Append", <<StringV("key1"), IntV(3), StringV("key2")>>)
    /\ am = <<"key1", IntV(3), "key2", StringV("<missing>")>>

\* C13: Delete(key) removes every entry whose key is key, leaves the other
\* entries with their values in their order, and changes nothing when the
\* store does not hold the key.
C13_DeleteRemovesKey ==
    \A key \in MapKeys \cup {"none"} :
        LET b == Delete(am, key)
            Kept(p) == p[1] # key
        IN  /\ ~HasKey(b, key)
            /\ b = Flat(SelectSeq(Entries(am), Kept))
            /\ ~HasKey(am, key) => b = am

\* Delete removed the second of three entries
C13_Witness ==
    /\ last = Call("Delete", <<StringV("key2")>>)
    /\ am = <<"key1", IntV(3), "3", StringV("key1")>>

----------------------------------------------------------------------------
(* Claims about the stack trace in the encoding                            *)

\* the names of the members of an object, in document order
Names(obj) == [i \in 1..Len(obj.members) |-> obj.members[i][1]]

IsObject(j) == j.t = "jobject"

\* no object that is the value of a member "cause", at any depth below obj,
\* has a member "stacktrace"
RECURSIVE NoStacktraceInCauses(_)
NoStacktraceInCauses(obj) ==
    \A i \in 1..Len(obj.members) :
        (obj.members[i][1] = "cause" /\ IsObject(obj.members[i][2])) =>
            /\ "stacktrace" \notin Range(Names(obj.members[i][2]))
            /\ NoStacktraceInCauses(obj.members[i][2])

\* op, kind, the keys of the store in store order, cause
AttributeNames(e, keys) ==
    (IF e.op # "" THEN <<"op">> ELSE <<>>) \o <<"kind">> \o keys
    \o (IF e.cause # Nil THEN <<"cause">> ELSE <<>>)

\* the keys of the store that are encoded: a key "stacktrace" is encoded
\* only while PrintStacktrace is set
EncodedKeys(e) ==
    LET Encoded(k) == k # "stacktrace" \/ PrintStacktrace
    IN  SelectSeq(Keys(e.fields), Encoded)

\* obj encodes e: its members are the attributes and the encoded keys of e in
\* the default order, followed by the stack trace if withStack; the object of
\* a cause that is an Error encodes that cause without a stack trace
RECURSIVE Encodes(_, _, _)
Encodes(obj, e, withStack) ==
    LET names == AttributeNames(e, EncodedKeys(e))
    IN  /\ IsObject(obj)
        /\ Names(obj) = names \o (IF withStack THEN <<"stacktrace">> ELSE <<>>)
        /\ IsError(e.cause) => Encodes(obj.members[Len(names)][2], e.cause, FALSE)

\* the number of members "stacktrace" of the objects that encode e and its
\* causes, less those that encode a context field of that key
RECURSIVE StackMembers(_, _)
StackMembers(obj, e) ==
    Cardinality({i \in 1..Len(obj.members) : obj.members[i][1] = "stacktrace"})
    - Cardinality({i \in 1..(Len(e.fields) \div 2) :
                      e.fields[2 * i - 1] = "stacktrace" /\ PrintStacktrace})
    + (IF IsError(e.cause)
       THEN LET at == CHOOSE i \in 1..Len(obj.members) :
                          /\ obj.members[i][1] = "cause"
                          /\ \A k \in (i + 1)..Len(obj.members) :
                                obj.members[k][1] = "cause"
                                   => ~IsObject(obj.members[k][2])
                          /\ IsObject(obj.members[i][2])
            IN  StackMembers(obj.members[at][2], e.cause)
       ELSE 0)

----------------------------------------------------------------------------
(* Claims about decoding                                                   *)

\* C15: decoding a malformed document (empty, not JSON, an array, a truncated
\* object) returns an error, and a decode that returns an error leaves the
\* target Error as it was.
C15_FailedDecodeLeavesTarget ==
    [][last'.op = "UnmarshalJSON" =>
          /\ last'.args[1] \in MalformedDocs => res' # Nil
          /\ res' # Nil => err' = err]_vars

\* the decode of the truncated object has failed on an Error that has an op,
\* a kind, a cause and a context field
C15_Witness ==
    /\ last = Call("UnmarshalJSON",
                   <<JInvalid("{\"op\":\"op1\",\"cause\":[\"an\",\"invalid array}",
                              << <<"op", JString("op1")>> >>)>>)
    /\ res # Nil
    /\ err.op = "operation" /\ err.kind = K.IO /\ err.cause = EOF
    /\ Len(err.fields) = 4

\* C16: an Error has ignoreStack set exactly when it was produced or filled
\* by decoding, and then renders no stack; an Error that only the
\* constructors and setters have built has it unset.
C16_IgnoreStackIffDecoded ==
    err # Nil =>
        IF last.op = "UnmarshalJSON" /\ res = Nil
        THEN err.ignoreStack /\ Error(err) = ErrorNoTrace(err)
        ELSE calls = 1 => ~err.ignoreStack

\* e, its causes and the Errors among its field values hold no context field
\* keyed "stacktrace" and no captured stack
RECURSIVE NoStacktraceAnywhere(_)
NoStacktraceAnywhere(v) ==
    IF v.t = "Error"
    THEN /\ ~HasKey(v.fields, "stacktrace")
         /\ v.pcs = <<>>
         /\ \A i \in 1..(Len(v.fields) \div 2) : NoStacktraceAnywhere(v.fields[2 * i])
         /\ NoStacktraceAnywhere(v.cause)
    ELSE TRUE

\* the formatter writes no field "stacktrace" for e or for any of its causes
RECURSIVE NoStacktraceWritten(_)
NoStacktraceWritten(e) ==
    /\ \A i \in 1..Len(writeFields(e, DefaultFieldOrder)) :
          writeFields(e, DefaultFieldOrder)[i][1] # "stacktrace"
    /\ IsError(e.cause) => NoStacktraceWritten(e.cause)

\* the text that the last member "stacktrace" of a document decodes to
SnapshotOf(members) ==
    LET at == {i \in 1..Len(members) : members[i][1] = "stacktrace"}
        v == members[CHOOSE i \in at : \A k \in at : k <= i][2]
    IN  IF at = {} THEN ""
        ELSE CASE v.t = "jstring" -> v.s
               [] v.t = "jnumber" -> Itoa(v.n)
               [] v.t = "null" -> ""
               [] v.t = "jarray" -> "\tframe1\n\tframe2"
               [] v.t = "jobject" -> Error(UnmarshalJSON(ZeroError, v, 0).e)

\* C17: a member "stacktrace" of a document, a string or an array, is kept as
\* the textual snapshot; it becomes no context field at any level, the text
\* of the decoded Error has no field "stacktrace", and the decode gives no
\* Error a live stack.
C17_StacktraceMemberDiverted ==
    (last.op = "UnmarshalJSON" /\ res = Nil /\ doc.t = "jobject") =>
        /\ NoStacktraceAnywhere(dec)
        /\ field(dec, "stacktrace") = [val |-> Nil, ok |-> FALSE]
        /\ NoStacktraceWritten(dec)
        /\ ~hasStack(dec) /\ Error(dec) = ErrorNoTrace(dec)
        /\ err = Nil => dec.unmarshalledStacktrace = SnapshotOf(doc.members)

\* a document that a peer sent, with an array "stacktrace" and a cause that
\* has a "stacktrace" of its own, has been decoded
C17_Witness ==
    /\ last.op = "UnmarshalJSON" /\ res = Nil /\ err = Nil
    /\ Names(doc) = <<"stacktrace", "cause">>
    /\ doc.members[1][2] = JArray(<<JString("frame1"), JString("frame2")>>)
    /\ dec.unmarshalledStacktrace = "\tframe1\n\tframe2"
    /\ IsError(dec.cause) /\ dec.cause.unmarshalledStacktrace = "remote"
    /\ dec.cause.fields = <<"b", FloatV(2)>>
    /\ dec.fields = <<>>

----------------------------------------------------------------------------
(* Copies.  An *Error points to a struct; the store of the struct is a     *)
(* slice [arr, len] of a backing array, which other slices may share.  The *)
(* heap is [objs, arrs]: the structs and the backing arrays, a new one is  *)
(* added at the end.  The cause of a struct is nil, an error value that is *)
(* not an *Error, or a pointer to a struct.                                *)

Ptr(id) == [t |-> "ptr", id |-> id]

IsPtr(v) == v.t = "ptr"

EmptyHeap == [objs |-> <<>>, arrs |-> <<>>]

\* the Error that p points to, as a value
RECURSIVE Load(_, _)
Load(h, p) ==
    [h.objs[p.id] EXCEPT !.cause = IF IsPtr(@) THEN Load(h, @) ELSE @,
                         !.fields = SubSeq(h.arrs[@.arr], 1, @.len)]

\* make([]interface{}, len(content), cap) and copy(_, content)
Make(h, content, cap) ==
    [h EXCEPT !.arrs = Append(@, content \o [i \in 1..(cap - Len(content)) |-> Nil])]

\* the Error v and its causes are put on the heap, the backing array of each
\* store with room for slack more elements: [h, p]
RECURSIVE Alloc(_, _, _)
Alloc(h, v, slack) ==
    LET c == IF IsError(v.cause) THEN Alloc(h, v.cause, slack)
             ELSE [h |-> h, p |-> v.cause]
        h1 == Make(c.h, v.fields, Len(v.fields) + slack)
    IN  [h |-> [h1 EXCEPT !.objs =
                   Append(@, [v EXCEPT !.cause = c.p,
                                       !.fields = [arr |-> Len(h1.arrs),
                                                   len |-> Len(v.fields)]])],
         p |-> Ptr(Len(h1.objs) + 1)]

\* a.Grow(n) for the slice s: [h, s]
Grow(h, s, n) ==
    IF s.len + n > Len(h.arrs[s.arr])
    THEN [h |-> Make(h, SubSeq(h.arrs[s.arr], 1, s.len), s.len + n),
          s |-> [arr |-> Len(h.arrs) + 1, len |-> s.len]]
    ELSE [h |-> h, s |-> s]

\* a.Delete(key) on the backing array arr of a slice of length len: the
\* elements behind a removed entry are copied two places down: [arr, len]
RECURSIVE DeleteInPlace(_, _, _, _)
DeleteInPlace(arr, len, key, i) ==
    IF i + 1 <= len
    THEN IF arr[i] = key
         THEN DeleteInPlace(SubSeq(arr, 1, i - 1) \o SubSeq(arr, i + 2, len)
                               \o SubSeq(arr, len - 1, Len(arr)),
                            len - 2, key, i + 2)
         ELSE DeleteInPlace(arr, len, key, i + 2)
    ELSE [arr |-> arr, len |-> len]

\* the struct at p after e.With(args...), of which v is the value: the
\* struct keeps the pointer to its cause unless With has set another cause
WithStruct(o, before, v, s) ==
    [v EXCEPT !.cause = IF v.cause = before.cause THEN o.cause ELSE v.cause,
              !.fields = [arr |-> s.arr, len |-> Len(v.fields)]]

\* the heap after the elements of the slice s are written
WriteStore(h, s, content) ==
    [h EXCEPT !.arrs[s.arr] = content \o SubSeq(@, Len(content) + 1, Len(@))]

\* e.With(args...) for the Error at p, args holding no key without a value:
\* Grow(argc) makes room for every entry, Set and append then write to the
\* backing array in place
WithAt(h, p, args) ==
    IF Len(unwrapSlice(args)) = 0 THEN h
    ELSE LET g == Grow(h, h.objs[p.id].fields, Len(unwrapSlice(args)))
             v == With(Load(h, p), args)
         IN  [WriteStore(g.h, g.s, v.fields) EXCEPT
                 !.objs[p.id] = WithStruct(h.objs[p.id], Load(h, p), v, g.s)]

\* variant: the copy keeps the store of the receiver
RECURSIVE ClearStacktraceShared(_, _)
ClearStacktraceShared(h, p) ==
    LET e == h.objs[p.id]
        d1 == DeleteInPlace(h.arrs[e.fields.arr], e.fields.len, "stacktrace", 1)
        d2 == DeleteInPlace(d1.arr, d1.len, "remote_stack", 1)
        h2 == [h EXCEPT !.arrs[e.fields.arr] = d2.arr]
        c == IF IsPtr(e.cause) THEN ClearStacktraceShared(h2, e.cause)
             ELSE [h |-> h2, p |-> e.cause]
    IN  [h |-> [c.h EXCEPT !.objs =
                   Append(@, [e EXCEPT !.fields = [arr |-> e.fields.arr, len |-> d2.len],
                                       !.pcs = <<>>,
                                       !.trace = <<>>,
                                       !.unmarshalledStacktrace = "",
                                       !.cause = c.p])],
         p |-> Ptr(Len(c.h.objs) + 1)]

\* e.ClearStacktrace() for the Error at p: [h, p], p the pointer to the clone
RECURSIVE ClearStacktrace(_, _)
ClearStacktrace(h, p) ==
    LET e == h.objs[p.id]
        h1 == Make(h, SubSeq(h.arrs[e.fields.arr], 1, e.fields.len), e.fields.len)
        d1 == DeleteInPlace(h1.arrs[Len(h1.arrs)], e.fields.len, "stacktrace", 1)
        d2 == DeleteInPlace(d1.arr, d1.len, "remote_stack", 1)
        h2 == [h1 EXCEPT !.arrs[Len(h1.arrs)] = d2.arr]
        c == IF IsPtr(e.cause) THEN ClearStacktrace(h2, e.cause)
             ELSE [h |-> h2, p |-> e.cause]
    IN  [h |-> [c.h EXCEPT !.objs =
                   Append(@, [e EXCEPT !.fields = [arr |-> Len(h1.arrs), len |-> d2.len],
                                       !.pcs = <<>>,
                                       !.trace = <<>>,
                                       !.unmarshalledStacktrace = "",
                                       !.cause = c.p])],
         p |-> Ptr(Len(c.h.objs) + 1)]

\* the number of With calls made after the copy in the specification SpecClear
MaxClearCalls == 2

\* the capacity that the backing array of a store may have left
Slacks == {0, 2}

\* an Error as TestError_UnmarshalJSON decodes it into an Error that E built
DecodedErr ==
    UnmarshalJSON(E(<<>>, Callers),
                  JObject(<< <<"op", JString("send email")>>,
                             <<"k1", JString("v1")>>,
                             <<"stacktrace", JString("remote")>>,
                             <<"cause", JObject(<< <<"op", JString("connect")>>,
                                                   <<"stacktrace", JString("inner")>>,
                                                   <<"k2", JNumber(2)>> >>)>> >>),
                  0).e

\* the Errors that are copied: with stacks and with context fields keyed
\* "stacktrace" and "remote_stack", they and their causes
ClearErrs ==
    NestedErrs
    \cup {E(<<StringV("op"), StringV("k1"), StringV("v1"), StringV("stacktrace"),
              StringV("trace"), StringV("k2"), StringV("v2"), KindV(K.Invalid), c>>,
            Callers) :
            c \in {EOF,
                   E(<<StringV("connect"), KindV(K.IO), StringV("remote_stack"),
                       StringV("r"), StringV("k1"), IntV(1), Str("network unreachable")>>,
                     InnerCallers)}}
    \cup {DecodedErr}

\* the arguments of the With calls on the copies: no key is without a value
ClearArgs == {<<KindV(K.IO)>>, <<StringV("k1"), StringV("new")>>,
              <<StringV("k9"), IntV(7)>>, <<StringV("stacktrace"), StringV("again")>>,
              <<EOF>>, <<StringV("op"), StringV("other")>>}

\* heap.e points to the receiver and heap.c to the copy, once it is made
InitClear ==
    /\ ConfigInit
    /\ \E v \in ClearErrs, slack \in Slacks :
         LET a == Alloc(EmptyHeap, v, slack)
         IN  /\ heap = [objs |-> a.h.objs, arrs |-> a.h.arrs, e |-> a.p, c |-> Nil]
             /\ err = v
             /\ other = v
    /\ clone = Nil
    /\ last = Call("none", <<>>)
    /\ out = ""
    /\ doc = Nil
    /\ fields = GoMap({})
    /\ dec = Nil
    /\ keyPosCounter = 0
    /\ calls = 0
    /\ am = <<>>
    /\ res = Nil
    /\ procs = <<>>

\* c := e.ClearStacktrace()
DoClearStacktrace ==
    /\ heap.c = Nil
    /\ LET r == ClearStacktrace(heap, heap.e)
       IN  /\ heap' = [objs |-> r.h.objs, arrs |-> r.h.arrs, e |-> heap.e, c |-> r.p]
           /\ clone' = Load(r.h, r.p)
           /\ err' = Load(r.h, heap.e)
    /\ last' = Call("ClearStacktrace", <<>>)
    /\ UNCHANGED <<procs, config, results, keyPosCounter, calls, am, other, res>>

\* c.With(args...)
DoWithClone ==
    /\ heap.c # Nil
    /\ calls < MaxClearCalls
    /\ \E args \in ClearArgs :
         /\ heap' = WithAt(heap, heap.c, args)
         /\ last' = Call("With", args)
    /\ clone' = Load(heap', heap.c)
    /\ err' = Load(heap', heap.e)
    /\ calls' = calls + 1
    /\ UNCHANGED <<procs, config, results, keyPosCounter, am, other, res>>

\* c.Cause().(*Error).With(args...)
DoWithCloneCause ==
    /\ heap.c # Nil
    /\ IsPtr(heap.objs[heap.c.id].cause)
    /\ calls < MaxClearCalls
    /\ \E args \in ClearArgs :
         /\ heap' = WithAt(heap, heap.objs[heap.c.id].cause, args)
         /\ last' = Call("Cause.With", args)
    /\ clone' = Load(heap', heap.c)
    /\ err' = Load(heap', heap.e)
    /\ calls' = calls + 1
    /\ UNCHANGED <<procs, config, results, keyPosCounter, am, other, res>>

NextClear == DoClearStacktrace \/ DoWithClone \/ DoWithCloneCause

SpecClear == InitClear /\ [][NextClear]_vars

\* c is e without its stack: the same op, kind and default kind, the fields
\* of e but those keyed "stacktrace" and "remote_stack", in the same order,
\* no stack and no textual snapshot, and as cause the cause of e, without its
\* stack if it is an Error
RECURSIVE Cleared(_, _)
Cleared(e, c) ==
    LET Kept(kv) == kv[1] \notin {"stacktrace", "remote_stack"}
    IN  /\ IsError(c)
        /\ c.op = e.op /\ c.kind = e.kind /\ c.defaultKind = e.defaultKind
        /\ c.fields = Flat(SelectSeq(Entries(e.fields), Kept))
        /\ c.pcs = <<>> /\ c.unmarshalledStacktrace = ""
        /\ IF IsError(e.cause) THEN Cleared(e.cause, c.cause) ELSE c.cause = e.cause

\* C18: ClearStacktrace returns a copy: the receiver and its causes keep
\* their stacks, fields and textual snapshots, then and when With is called
\* on the copy or on a cause of the copy; the copy and its causes have no
\* stack and no field "stacktrace" or "remote_stack", and are otherwise as
\* the receiver and its causes are.
C18_ClearStacktraceCopies ==
    /\ err = other
    /\ Load(heap, heap.e) = other
    /\ clone # Nil => ~hasStack(clone)
    /\ last.op = "ClearStacktrace" => Cleared(other, clone)

\* the copy of an Error that has a stack, a field "stacktrace" and a cause
\* with a stack and a field "remote_stack" was given a new value for a key
\* that the receiver holds too
C18_Witness ==
    /\ last = Call("With", <<StringV("k1"), StringV("new")>>)
    /\ err.pcs # <<>> /\ HasKey(err.fields, "stacktrace")
    /\ IsError(err.cause) /\ err.cause.pcs # <<>>
    /\ HasKey(err.cause.fields, "remote_stack")
    /\ err.fields[2] = StringV("v1")
    /\ clone.fields = <<"k1", StringV("new"), "k2", StringV("v2")>>
    /\ clone.cause.fields = <<"k1", IntV(1)>>

----------------------------------------------------------------------------
(* Match: the comparison of two errors                                     *)

BoolV(b) == [t |-> "bool", b |-> b]

\* reflect.DeepEqual of two values
DeepEqual(v1, v2) == v1 = v2

RECURSIVE Match(_, _)
RECURSIVE matchFields(_, _, _)

\* the loop of Match over the context fields of e1, from the pair at i on:
\* "false" and "true" are the results Match returns from within the loop,
\* "next" is for a loop that ran to its end
matchFields(e1, e2, i) ==
    IF i + 1 > Len(e1.fields) THEN "next"
    ELSE LET val1 == e1.fields[i + 1]
             g == Get(e2.fields, e1.fields[i])
         IN  IF ~g.ok THEN "false"
             ELSE IF IsErrorIface(val1)
             THEN IF IsErrorIface(g.val)
                  THEN IF Match(val1, g.val) THEN "true" ELSE "false"
                  ELSE "false"
             ELSE IF ~DeepEqual(val1, g.val) THEN "false"
             ELSE matchFields(e1, e2, i + 2)

Match(err1, err2) ==
    IF err1 = Nil THEN err2 = Nil
    ELSE IF err2 = Nil THEN FALSE
    ELSE IF ~IsError(err1)
    THEN IF ~IsError(err2) THEN DeepEqual(err1, err2) ELSE Match(err1, err2.cause)
    ELSE IF ~IsError(err2) THEN FALSE
    ELSE IF err1.op # "" /\ err1.op # err2.op THEN FALSE
    ELSE IF err1.kind # "" /\ err1.kind # Kind(err2) THEN FALSE
    ELSE LET f == matchFields(err1, err2, 1)
         IN  IF f # "next" THEN f = "true"
             ELSE IF err1.cause # Nil THEN Match(err1.cause, err2.cause)
             ELSE TRUE

errConnect ==
    E(<<StringV("connect"), KindV(K.IO), Str("network unreachable"), StringV("k1"),
        StringV("v1"), StringV("k2"), StringV("v2")>>, Callers)

\* the errors of TestMatch and ExampleMatch, and errors that have a context
\* field with an error as its value ahead of another field or of a cause
MatchErrs ==
    {NoTrace(<<StringV("op1")>>),
     NoTrace(<<StringV("op2")>>),
     NoTrace(<<KindV(K.Invalid)>>),
     NoTrace(<<EOF>>),
     NoTrace(<<StringV("op1"), KindV(K.Invalid), EOF, StringV("k1"), StringV("v1"),
               StringV("k2"), StringV("v2")>>),
     NoTrace(<<StringV("op1"), KindV(K.Invalid), EOF, StringV("k1"), StringV("v1")>>),
     NoTrace(<<StringV("op1"), KindV(K.IO), Str("closed pipe"), StringV("k1"),
               StringV("v1")>>),
     NoTrace(<<StringV("op1"), NoTrace(<<StringV("op2"), KindV(K.Invalid)>>)>>),
     NoTrace(<<StringV("op1"), NoTrace(<<StringV("op2"), KindV(K.IO)>>)>>),
     E(<<StringV("op1"), NoTrace(<<StringV("op2")>>)>>, Callers),
     NoTrace(<<StringV("finish signup"), StringV("nested"), errConnect>>),
     NoTrace(<<StringV("finish signup"), StringV("nested"), StringV("not an error")>>),
     NoTrace(<<StringV("finish signup"), StringV("nested"),
               NoTrace(<<StringV("op2")>>)>>),
     NoTrace(<<StringV("finish signup"), StringV("nested"), errConnect,
               StringV("k1"), StringV("v1")>>),
     NoTrace(<<StringV("finish signup"), StringV("nested"), errConnect,
               StringV("k1"), StringV("another value")>>),
     NoTrace(<<StringV("finish signup"), StringV("nested"), errConnect, EOF>>),
     NoTrace(<<StringV("finish signup"), StringV("nested"), errConnect,
               Str("closed pipe")>>)}

InitMatch ==
    /\ ConfigInit
    /\ err \in MatchErrs
    /\ other \in MatchErrs
    /\ res = Nil
    /\ last = Call("none", <<>>)
    /\ out = ""
    /\ doc = Nil
    /\ fields = GoMap({})
    /\ dec = Nil
    /\ keyPosCounter = 0
    /\ calls = 0
    /\ am = <<>>
    /\ clone = Nil
    /\ heap = Nil
    /\ procs = <<>>

\* errors.Match(err, other)
DoMatch ==
    /\ last.op = "none"
    /\ res' = BoolV(Match(err, other))
    /\ last' = Call("Match", <<err, other>>)
    /\ UNCHANGED <<procs, err, other, config, results, keyPosCounter, calls, am, clone, heap>>

\* errors.Match(other, err)
DoMatchReversed ==
    /\ last.op = "none"
    /\ res' = BoolV(Match(other, err))
    /\ last' = Call("Match", <<other, err>>)
    /\ UNCHANGED <<procs, err, other, config, results, keyPosCounter, calls, am, clone, heap>>

NextMatch == DoMatch \/ DoMatchReversed

SpecMatch == InitMatch /\ [][NextMatch]_vars

----------------------------------------------------------------------------
(* Claim about Match                                                       *)

RECURSIVE EveryElementEqual(_, _)

\* every non-zero element of e1 equals the corresponding element of e2: the
\* op, the kind, every context field and the cause, errors among them compared
\* in the same way when both are structured Errors and by Match otherwise
EveryElementEqual(e1, e2) ==
    IF ~(IsError(e1) /\ IsError(e2)) THEN Match(e1, e2)
    ELSE /\ e1.op # "" => e1.op = e2.op
         /\ e1.kind # "" => e1.kind = Kind(e2)
         /\ \A i \in 1..(Len(e1.fields) \div 2) :
              LET val1 == e1.fields[2 * i]
                  g == Get(e2.fields, e1.fields[2 * i - 1])
              IN  /\ g.ok
                  /\ IF IsErrorIface(val1)
                     THEN IsErrorIface(g.val) /\ EveryElementEqual(val1, g.val)
                     ELSE val1 = g.val
         /\ e1.cause # Nil => EveryElementEqual(e1.cause, e2.cause)

\* C19: Match of two structured Errors is true exactly if every non-zero
\* element of the first (op, explicit kind, each context field, cause) equals
\* the corresponding element of the second.
C19_MatchComparesEveryElement ==
    last.op = "Match" =>
        (res.b <=> EveryElementEqual(last.args[1], last.args[2]))

----------------------------------------------------------------------------
(* ErrorList and errors.Append                                             *)

\* &ErrorList{Errors: errs}
ErrorList(errs) == [t |-> "ErrorList", Errors |-> errs]

\* (*ErrorList)(nil) held by an error interface
NilList == [t |-> "*ErrorList(nil)"]

IsList(v) == v.t = "ErrorList"

RECURSIVE ErrorList_Append(_, _, _)

\* e.Append(errs...), from errs[i] on; e is the slice e.Errors
ErrorList_Append(e, errs, i) ==
    IF i > Len(errs) THEN e
    ELSE LET x == errs[i]
         IN  IF IsList(x) THEN ErrorList_Append(e \o x.Errors, errs, i + 1)
             ELSE IF x = NilList \/ x = Nil THEN ErrorList_Append(e, errs, i + 1)
             ELSE ErrorList_Append(Append(e, x), errs, i + 1)

ErrorOrNil(e) ==
    IF e = NilList \/ Len(e.Errors) = 0 THEN Nil
    ELSE IF Len(e.Errors) = 1 THEN e.Errors[1]
    ELSE e

RECURSIVE skipLeadingNil(_)

\* the first loop of errors.Append: nil interfaces at the head of errs are dropped
skipLeadingNil(errs) ==
    IF Len(errs) > 0 /\ errs[1] = Nil THEN skipLeadingNil(Tail(errs)) ELSE errs

\* errors.Append(e, errs...)
errorsAppend(e, errs) ==
    LET rest1 == skipLeadingNil(errs)
    IN  IF Len(rest1) = 0 THEN e
        ELSE IF e = NilList
        THEN IF Len(rest1) = 1 THEN rest1[1]
             ELSE ErrorOrNil(ErrorList(ErrorList_Append(<<>>, rest1, 1)))
        ELSE IF IsList(e)
        THEN ErrorOrNil(ErrorList(ErrorList_Append(e.Errors, rest1, 1)))
        ELSE ErrorOrNil(ErrorList(
                 ErrorList_Append(ErrorList_Append(<<>>, <<e>>, 1), rest1, 1)))

MaxListCalls == 2

\* the values of TestErrorListBasic, TestAppend and TestErrorList_Append
ListTokens == {Nil, EOF, Str("io: read/write on closed pipe"), NilList, ErrorList(<<>>),
               ErrorList(<<Str("unexpected EOF"), Str("multiple Read calls return no data or error")>>)}

ListArgs == Args(ListTokens)

InitList ==
    /\ ConfigInit
    /\ err \in {Nil, NilList, ErrorList(<<>>)}
    /\ other = Nil
    /\ res = Nil
    /\ last = Call("none", <<>>)
    /\ out = ""
    /\ doc = Nil
    /\ fields = GoMap({})
    /\ dec = Nil
    /\ keyPosCounter = 0
    /\ calls = 0
    /\ am = <<>>
    /\ clone = Nil
    /\ heap = Nil
    /\ procs = <<>>

\* err = errors.Append(err, errs...)
DoErrorsAppend ==
    /\ calls < MaxListCalls
    /\ \E errs \in ListArgs :
         /\ res' = errorsAppend(err, errs)
         /\ last' = Call("errors.Append", <<err>> \o errs)
    /\ err' = res'
    /\ calls' = calls + 1
    /\ UNCHANGED <<procs, config, results, keyPosCounter, am, clone, other, heap>>

\* el.Append(errs...) on the list that err points to
DoListAppend ==
    /\ calls < MaxListCalls
    /\ IsList(err)
    /\ \E errs \in ListArgs :
         /\ err' = ErrorList(ErrorList_Append(err.Errors, errs, 1))
         /\ last' = Call("ErrorList.Append", errs)
    /\ calls' = calls + 1
    /\ UNCHANGED <<procs, config, results, keyPosCounter, am, clone, other, res, heap>>

NextList == DoErrorsAppend \/ DoListAppend

SpecList == InitList /\ [][NextList]_vars

----------------------------------------------------------------------------
(* Claim about errors.Append                                               *)

RECURSIVE Contributed(_)

\* the errors that a list of arguments contributes: nothing for a nil value
\* and for a nil list, its elements for a list, itself for any other error
Contributed(errs) ==
    IF Len(errs) = 0 THEN <<>>
    ELSE LET x == Head(errs)
         IN  (IF x = Nil \/ x = NilList THEN <<>>
              ELSE IF IsList(x) THEN x.Errors
              ELSE <<x>>) \o Contributed(Tail(errs))

\* C20: errors.Append returns nil if its arguments contribute no error, the
\* error itself if they contribute exactly one, and otherwise an ErrorList of
\* all contributed errors in argument order; the list that results holds no
\* nil entry and no ErrorList. (A nil *ErrorList counts as nil.)
C20_AppendNormalizes ==
    last.op = "errors.Append" =>
        LET all == Contributed(last.args)
        IN  /\ Len(all) = 0 => res \in {Nil, NilList}
            /\ Len(all) = 1 => res = all[1]
            /\ Len(all) > 1 => res = ErrorList(all)
            /\ IsList(res) =>
                 \A i \in 1..Len(res.Errors) :
                    res.Errors[i] \notin {Nil, NilList} /\ ~IsList(res.Errors[i])

----------------------------------------------------------------------------
(* Decoding a list of errors                                               *)

\* valOrMap.AsError
valOrMap_AsError(s) ==
    IF s.m # Nil /\ s.m.entries # {} THEN unmarshalFrom(ZeroError, s.m)
    ELSE IF s.val # Nil THEN Str(toString(s.val))
    ELSE Nil

RECURSIVE decodeElems(_, _, _, _)

\* json.Unmarshal of an array into a []valOrMap, from element i on:
\* valOrMap.UnmarshalJSON stores an object in m and any other value in val
decodeElems(a, i, elems, counter) ==
    IF i > Len(a) THEN [elems |-> elems, counter |-> counter]
    ELSE IF a[i].t = "jobject"
    THEN LET sub == decodeMembers(a[i].members, 1, {}, counter)
         IN  decodeElems(a, i + 1, Append(elems, [val |-> Nil, m |-> sub.m]), sub.counter)
    ELSE decodeElems(a, i + 1, Append(elems, [val |-> decodeValue(a[i]), m |-> Nil]),
                     counter)

RECURSIVE appendElems(_, _, _)

\* the loop of ErrorList.UnmarshalJSON over list.Errors
appendElems(e, elems, i) ==
    IF i > Len(elems) THEN e
    ELSE LET ee == valOrMap_AsError(elems[i])
         IN  IF ee # Nil THEN appendElems(ErrorList_Append(e, <<ee>>, 1), elems, i + 1)
             ELSE appendElems(e, elems, i + 1)

\* e.UnmarshalJSON(bts) of an ErrorList with the slice e of Errors:
\* [list, counter, failed]
ErrorList_UnmarshalJSON(e, b, counter) ==
    IF b.t = "null" THEN [list |-> e, counter |-> counter, failed |-> FALSE]
    ELSE IF b.t # "jobject" THEN [list |-> e, counter |-> counter, failed |-> TRUE]
    ELSE LET f == Get(Flat(b.members), "errors")
         IN  IF ~f.ok \/ f.val.t = "null"
             THEN [list |-> e, counter |-> counter, failed |-> FALSE]
             ELSE IF f.val.t # "jarray"
             THEN [list |-> e, counter |-> counter, failed |-> TRUE]
             ELSE LET d == decodeElems(f.val.a, 1, <<>>, counter)
                  IN  [list |-> appendElems(e, d.elems, 1), counter |-> d.counter,
                       failed |-> FALSE]

UnmarshalJsonErrorList(bts, counter) == ErrorList_UnmarshalJSON(<<>>, bts, counter)

MaxElems == 3

\* the elements of the example of UnmarshalJsonErrorList and of
\* TestErrorList_UnmarshalJSON, and an empty string, a number and null
ListElems == {JObject(<< <<"op", JString("op1")>> >>),
              JObject(<< <<"op", JString("op1")>>, <<"kind", JString("invalid")>> >>),
              JString("EOF"), JObject(<<>>), JString(""), JNumber(7), JNull}

ListDocs ==
    {JObject(<< <<"errors", JArray(a)>> >>) :
        a \in UNION {[1..n -> ListElems] : n \in 0..MaxElems}}
    \cup {JObject(<<>>), JObject(<< <<"blub", JString("blob")>> >>),
          JObject(<< <<"errors", JString("EOF")>> >>)}
    \cup MalformedDocs

InitListJSON ==
    /\ ConfigInit
    /\ doc \in ListDocs
    /\ keyPosCounter \in {0, 5}
    /\ err = Nil
    /\ other = Nil
    /\ res = Nil
    /\ last = Call("none", <<>>)
    /\ out = ""
    /\ fields = GoMap({})
    /\ dec = Nil
    /\ calls = 0
    /\ am = <<>>
    /\ clone = Nil
    /\ heap = Nil
    /\ procs = <<>>

\* list, err := errors.UnmarshalJsonErrorList(doc)
DoUnmarshalJsonErrorList ==
    /\ last.op = "none"
    /\ LET r == UnmarshalJsonErrorList(doc, keyPosCounter)
       IN  /\ dec' = ErrorList(r.list)
           /\ res' = IF r.failed THEN JSONError(doc) ELSE Nil
           /\ keyPosCounter' = r.counter
    /\ last' = Call("UnmarshalJsonErrorList", <<doc>>)
    /\ UNCHANGED <<procs, err, config, out, doc, fields, calls, am, clone, other, heap>>

NextListJSON == DoUnmarshalJsonErrorList

SpecListJSON == InitListJSON /\ [][NextListJSON]_vars

----------------------------------------------------------------------------
(* Claim about UnmarshalJsonErrorList                                      *)

\* what an element of the "errors" array stands for: a structured Error for an
\* object, a plain error for a string, nothing for an empty element
ElementError(j) ==
    IF j.t = "jobject"
    THEN IF Len(j.members) = 0 THEN Nil
         ELSE UnmarshalJSON(ZeroError, j, 0).e
    ELSE IF j.t = "jstring"
    THEN IF j.s = "" THEN Nil ELSE Str(j.s)
    ELSE IF j.t = "null" THEN Nil
    ELSE Str(toString(decodeValue(j)))

RECURSIVE ElementErrors(_)

ElementErrors(a) ==
    IF Len(a) = 0 THEN <<>>
    ELSE (IF ElementError(Head(a)) = Nil THEN <<>> ELSE <<ElementError(Head(a))>>)
         \o ElementErrors(Tail(a))

IsListDoc(b) ==
    /\ b.t = "jobject" /\ Len(b.members) = 1
    /\ b.members[1][1] = "errors" /\ b.members[1][2].t = "jarray"

\* C21: UnmarshalJsonErrorList decodes the elements of "errors" in order,
\* objects into structured Errors and strings into plain errors, and drops
\* every empty element: no empty object and no empty string shows in the list.
C21_EmptyElementsDropped ==
    (last.op = "UnmarshalJsonErrorList" /\ IsListDoc(doc)) =>
        /\ res = Nil
        /\ dec.Errors = ElementErrors(doc.members[1][2].a)
        /\ \A i \in 1..Len(dec.Errors) :
              dec.Errors[i] # Str("") /\ ~(IsError(dec.Errors[i]) /\ isZero(dec.Errors[i]))

----------------------------------------------------------------------------
(* Stacks of nested Errors: an Error is built as the functions of          *)
(* TestPartialNestedNoStack build it, and rendered                         *)

\* the stack of an E() on the line of caller on which inner was called
MidCallers == <<Frame("caller", 9, 6), Frame("main", 20, 2)>>

\* withTrace(nil), an error without stack, an opaque error, or no error
StackInner == {<<>>, <<EOF>>, <<NoTrace(<<StringV("f3 no trace")>>)>>,
               <<E(<<StringV("f3 with trace")>>, InnerCallers)>>}

\* the error of StackInner as it is, or wrapped by noTrace or by E
StackMid ==
    StackInner
    \cup {<<NoTrace(<<StringV("f2 no trace")>> \o c)>> : c \in StackInner}
    \cup {<<E(<<StringV("f2 with trace")>> \o c, MidCallers)>> : c \in StackInner}

\* a context field, with an Error as its value in two of them
StackFields == {<<>>, <<StringV("k1"), StringV("v1")>>,
                <<StringV("nested"), errConnect>>,
                <<StringV("nested"), NoTrace(<<StringV("connect")>>)>>}

\* f1(true) and f1(false)
StackErrs ==
    {NoTrace(<<StringV("f1")>> \o f \o c) : f \in StackFields, c \in StackMid}
    \cup {E(<<StringV("f1")>> \o f \o c, Callers) : f \in StackFields, c \in StackMid}

InitStack ==
    /\ PrintStacktrace \in BOOLEAN
    /\ MarshalStacktrace \in BOOLEAN
    /\ MarshalStacktraceAsArray = TRUE
    /\ DefaultFieldOrder = <<>>
    /\ err \in StackErrs
    /\ last = Call("none", <<>>)
    /\ out = ""
    /\ doc = Nil
    /\ fields = GoMap({})
    /\ dec = Nil
    /\ keyPosCounter = 0
    /\ calls = 0
    /\ RestInit

NextStack == DoError

SpecStack == InitStack /\ [][NextStack]_vars

----------------------------------------------------------------------------
(* Claim about the stack of a chain of Errors                              *)

ChainHasStack(e) ==
    \E i \in 1..Len(StructuredChain(e)) : StructuredChain(e)[i].pcs # <<>>

RECURSIVE NoStacks(_)

\* e without any stack: its own, those of its causes and those of the
\* Errors that are values of context fields
NoStacks(e) ==
    IF ~IsError(e) THEN e
    ELSE [e EXCEPT !.pcs = <<>>,
                   !.cause = NoStacks(@),
                   !.fields = [i \in 1..Len(@) |->
                                  IF i % 2 = 0 THEN NoStacks(@[i]) ELSE @[i]]]

RECURSIVE NoChainStacks(_)

\* e without its own stack and those of its causes
NoChainStacks(e) ==
    IF ~IsError(e) THEN e
    ELSE [e EXCEPT !.pcs = <<>>, !.cause = NoChainStacks(@)]

\* the trace block that Error() ends with
TraceBlock(e) ==
    IF PrintStacktrace /\ ChainHasStack(e) THEN "\n" \o printStack(e) ELSE ""

\* C22 (as stated): an Error has a stack exactly if it or a structured Error
\* in its cause chain has a captured stack; the text of Error() is the text of
\* the fields, free of traces, followed by one trace block if stack printing
\* is on and the Error has a stack, and by nothing otherwise.
C22_OneTraceBlock ==
    /\ hasStack(err) <=> ChainHasStack(err)
    /\ last.op = "Error" => out = Error(NoStacks(err)) \o TraceBlock(err)

\* C22 (amended): as above, but a context field whose value is an Error with
\* a stack is rendered with the text of that Error's Error(), its trace block
\* included.
C22_OneTraceBlockOfChain ==
    /\ hasStack(err) <=> ChainHasStack(err)
    /\ last.op = "Error" =>
         /\ out = Error(NoChainStacks(err)) \o TraceBlock(err)
         /\ Error(NoChainStacks(err)) = ErrorNoTrace(err)

\* an Error built with NoTrace, whose cause built with NoTrace has a cause
\* with a stack, was rendered with the trace of that cause
C22_Witness ==
    /\ last.op = "Error" /\ PrintStacktrace
    /\ err.pcs = <<>> /\ Len(err.fields) = 0
    /\ IsError(err.cause) /\ err.cause.pcs = <<>>
    /\ IsError(err.cause.cause) /\ err.cause.cause.pcs = InnerCallers
    /\ out = ErrorNoTrace(err) \o "\n\tinner:5\n\tcaller:9\n\tmain:20\n"

----------------------------------------------------------------------------
(* Coalescing the stack of an Error with the stack of its cause            *)

\* the most frames of a stack
MaxFrames == 3

\* the frames of Callers and InnerCallers, and the frame of caller with the
\* program counter of another call on the same line
StackFrames == {Frame("main", 20, 2), Frame("caller", 10, 1), Frame("caller", 9, 4),
                Frame("caller", 9, 6), Frame("inner", 5, 3)}

Traces == UNION {[1..n -> StackFrames] : n \in 0..MaxFrames}

\* errors.E("outer", errors.E("inner")).coalesceStack(), where the stack of
\* the outer E is c1 and the stack of the inner E is c2
DoCoalesceStack ==
    /\ last.op = "none"
    /\ \E c1, c2 \in Traces :
         LET e == E(<<StringV("outer"), E(<<StringV("inner")>>, c2)>>, c1)
         IN  /\ err' = coalesced(e)
             /\ res' = SliceV(coalesceStack(e))
             /\ last' = Call("coalesceStack", <<c1, c2>>)
    /\ UNCHANGED <<procs, config, results, keyPosCounter, calls, am, clone, other, heap>>

NextCoalesce == DoCoalesceStack

SpecCoalesce == Init /\ [][NextCoalesce]_vars

----------------------------------------------------------------------------
(* Claims about coalescing                                                 *)

Min(a, b) == IF a < b THEN a ELSE b

\* the length of the longest run of pairwise equivalent frames at the ends of
\* c1 and c2
SharedRun(c1, c2) ==
    CHOOSE i \in 0..Min(Len(c1), Len(c2)) :
        /\ \A k \in 0..(i - 1) : equivalent(c1[Len(c1) - k], c2[Len(c2) - k])
        /\ i < Min(Len(c1), Len(c2)) => ~equivalent(c1[Len(c1) - i], c2[Len(c2) - i])

\* the frames of c ahead of its last i frames
Leading(c, i) == SubSeq(c, 1, Len(c) - i)

\* C23 (as stated): the coalesced trace is the non-shared leading frames of
\* the outer trace followed by the entire inner trace.
C23_OuterLeadsThenInner ==
    last.op = "coalesceStack" =>
        LET outer == last.args[1]
            inner == last.args[2]
        IN  res.a = Leading(outer, SharedRun(outer, inner)) \o inner

\* C23 (amended): the coalesced trace is the non-shared leading frames of the
\* inner trace (the trace of the cause) followed by the entire outer trace;
\* the shared part is the maximal run of pairwise equivalent frames at the
\* ends of both traces, program counters ignored.
C23_InnerLeadsThenOuter ==
    last.op = "coalesceStack" =>
        LET outer == last.args[1]
            inner == last.args[2]
        IN  res.a = Leading(inner, SharedRun(outer, inner)) \o outer

\* the stack of an E in caller was coalesced with the stack of an E in inner:
\* main is shared, the two lines of caller are not
C23_Witness ==
    /\ last = Call("coalesceStack", <<Callers, InnerCallers>>)
    /\ res.a = <<Frame("inner", 5, 3), Frame("caller", 9, 4), Frame("caller", 10, 1),
                 Frame("main", 20, 2)>>

Count(c, f) == Cardinality({i \in 1..Len(c) : c[i] = f})

\* C24: the merged trace of traces of l1 and l2 frames with a shared run of i
\* frames has l1 + l2 - i frames: the frames of both traces, the shared run
\* once, at its end; merged with an absent trace a trace stays as it is.
C24_MergedLength ==
    last.op = "coalesceStack" =>
        LET c1 == last.args[1]
            c2 == last.args[2]
            i == SharedRun(c1, c2)
            n == Len(res.a)
        IN  /\ n = Len(c1) + Len(c2) - i
            /\ \A k \in 0..(i - 1) : /\ equivalent(res.a[n - k], c1[Len(c1) - k])
                                     /\ equivalent(res.a[n - k], c2[Len(c2) - k])
            /\ \A f \in StackFrames :
                  Count(res.a, f) = Count(c1, f) + Count(Leading(c2, i), f)
            /\ c1 = <<>> => res.a = c2
            /\ c2 = <<>> => res.a = c1

\* two traces of three frames that share their last two frames were merged
\* into four frames
C24_Witness ==
    /\ last.op = "coalesceStack"
    /\ Len(last.args[1]) = 3 /\ Len(last.args[2]) = 3
    /\ SharedRun(last.args[1], last.args[2]) = 2
    /\ last.args[1][2].pc # last.args[2][2].pc
    /\ Len(res.a) = 4

----------------------------------------------------------------------------
(* Errors that are causes of one another: the Errors are structs on the    *)
(* heap, a cause is nil, an error that is not an *Error, or a pointer      *)

\* the number of Errors that are built
MaxObjs == 2

\* the number of calls made on the Errors once they are built
MaxCauseCalls == 2

\* what runs out when a recursion does not end
StackOverflow == "fatal error: stack overflow"

Ptrs(h) == {Ptr(i) : i \in 1..Len(h.objs)}

RECURSIVE effectiveKindAt(_, _, _, _)

\* e.effectiveKind(def) for the Error at p; visited are the Errors whose call
\* of effectiveKind is on the stack. A call for one of them is made with the
\* same kind and cause as the call on the stack, and so on without end
effectiveKindAt(h, p, def, visited) ==
    LET e == h.objs[p.id]
        d == IF e.defaultKind # "" THEN e.defaultKind
             ELSE IF def = "" THEN K.Other ELSE def
    IN  IF p.id \in visited THEN StackOverflow
        ELSE IF e.kind # "" THEN e.kind
        ELSE IF IsPtr(e.cause)
        THEN LET eff == effectiveKindAt(h, e.cause, d, visited \cup {p.id})
             IN  IF eff # "" THEN eff ELSE d
        ELSE d

\* e.Kind() for the Error at p
KindAt(h, p) == effectiveKindAt(h, p, K.Other, {})

InitCause ==
    /\ ConfigInit
    /\ heap = EmptyHeap
    /\ err = Nil
    /\ other = Nil
    /\ res = Nil
    /\ last = Call("none", <<>>)
    /\ out = ""
    /\ doc = Nil
    /\ fields = GoMap({})
    /\ dec = Nil
    /\ keyPosCounter = 0
    /\ calls = 0
    /\ am = <<>>
    /\ clone = Nil
    /\ procs = <<>>

\* errors.NoTrace("op", kind, cause), the cause one of the Errors built before
DoNoTraceAt ==
    /\ Len(heap.objs) < MaxObjs
    /\ \E k \in {<<>>, <<KindV(K.IO)>>, <<DefaultKindV(K.NotExist)>>},
          c \in {Nil, EOF} \cup Ptrs(heap) :
         /\ heap' = Alloc(heap, WithCause(NoTrace(<<StringV("op")>> \o k), c), 0).h
         /\ last' = Call("NoTrace", <<StringV("op")>> \o k \o <<c>>)
    /\ UNCHANGED <<procs, err, config, results, keyPosCounter, calls, am, clone, other, res>>

\* e.WithCause(c) for the Error e at p
DoWithCauseAt ==
    /\ calls < MaxCauseCalls
    /\ \E p \in Ptrs(heap), c \in {Nil, EOF} \cup Ptrs(heap) :
         /\ heap' = [heap EXCEPT !.objs[p.id] = WithCause(@, c)]
         /\ last' = Call("WithCause", <<p, c>>)
    /\ calls' = calls + 1
    /\ UNCHANGED <<procs, err, config, results, keyPosCounter, am, clone, other, res>>

\* e.WithKind(kind) for the Error e at p
DoWithKindAt ==
    /\ calls < MaxCauseCalls
    /\ \E p \in Ptrs(heap), kind \in {"", K.Invalid} :
         /\ heap' = [heap EXCEPT !.objs[p.id] = WithKind(@, kind)]
         /\ last' = Call("WithKind", <<p, StringV(kind)>>)
    /\ calls' = calls + 1
    /\ UNCHANGED <<procs, err, config, results, keyPosCounter, am, clone, other, res>>

\* e.WithDefaultKind(kind) for the Error e at p
DoWithDefaultKindAt ==
    /\ calls < MaxCauseCalls
    /\ \E p \in Ptrs(heap), kind \in {"", K.Timeout} :
         /\ heap' = [heap EXCEPT !.objs[p.id] = WithDefaultKind(@, kind)]
         /\ last' = Call("WithDefaultKind", <<p, StringV(kind)>>)
    /\ calls' = calls + 1
    /\ UNCHANGED <<procs, err, config, results, keyPosCounter, am, clone, other, res>>

\* e.Kind() for the Error e at p
DoKindAt ==
    /\ \E p \in Ptrs(heap) :
         /\ res' = StringV(KindAt(heap, p))
         /\ last' = Call("Kind", <<p>>)
    /\ UNCHANGED <<procs, err, config, results, keyPosCounter, calls, am, clone, other, heap>>

NextCause ==
    DoNoTraceAt \/ DoWithCauseAt \/ DoWithKindAt \/ DoWithDefaultKindAt \/ DoKindAt

SpecCause == InitCause /\ [][NextCause]_vars

----------------------------------------------------------------------------
(* Claim about the end of kind resolution                                  *)

RECURSIVE ReachesIn(_, _, _, _)

\* the Error at q is reached from the cause of the Error at p in at most n
\* steps from cause to cause
ReachesIn(h, p, q, n) ==
    /\ n > 0
    /\ IsPtr(h.objs[p.id].cause)
    /\ \/ h.objs[p.id].cause = q
       \/ ReachesIn(h, h.objs[p.id].cause, q, n - 1)

Acyclic(h) == \A p \in Ptrs(h) : ~ReachesIn(h, p, p, Len(h.objs))

\* C25: kind resolution ends with a classification that is not empty for every
\* Error that the public operations produce, as none of them closes a cycle of
\* causes.
C25_KindResolutionEnds ==
    /\ Acyclic(heap)
    /\ last.op = "Kind" => res.s # StackOverflow /\ res.s # ""

----------------------------------------------------------------------------
(* Decoders that run concurrently: each one decodes its own document into  *)
(* its own map and Error; keyPosCounter is the one variable they share.    *)
(* A decoder is [doc, i, entries, dec]: the members of its document, the   *)
(* member it decodes next, its map so far and its Error once it is built.  *)

\* the number of decoders
NumDecoders == 2

\* the members of the documents that are decoded concurrently
ConcDocs == {<< <<"a", JString("x")>>, <<"b", JNumber(7)>> >>,
             << <<"b", JString("y")>>, <<"a", JString("x")>>, <<"c", JNull>> >>,
             << <<"c", JNumber(1)>> >>}

InitConc ==
    /\ ConfigInit
    /\ procs \in [1..NumDecoders -> {[doc |-> d, i |-> 1, entries |-> {}, dec |-> Nil] :
                                        d \in ConcDocs}]
    /\ keyPosCounter \in {0, 5}
    /\ err = Nil
    /\ last = Call("none", <<>>)
    /\ out = ""
    /\ doc = Nil
    /\ fields = GoMap({})
    /\ dec = Nil
    /\ calls = 0
    /\ am = <<>>
    /\ clone = Nil
    /\ other = Nil
    /\ res = Nil
    /\ heap = Nil

\* decoder p decodes its next member: json.Unmarshal stores the value and
\* calls UnmarshalText for the name, which adds one to the counter atomically
DoDecodeMember(p) ==
    /\ procs[p].i <= Len(procs[p].doc)
    /\ LET member == procs[p].doc[procs[p].i]
           k == UnmarshalText(member[1], keyPosCounter)
       IN  /\ procs' = [procs EXCEPT
                          ![p].entries = @ \cup {[key |-> k.key, pos |-> k.pos,
                                                  v |-> [val |-> decodeValue(member[2]),
                                                         m |-> Nil]]},
                          ![p].i = @ + 1]
           /\ keyPosCounter' = k.pos
    /\ last' = Call("UnmarshalText", <<p>>)
    /\ UNCHANGED <<err, config, results, calls, am, clone, other, res, heap>>

\* decoder p has decoded its document and calls e.unmarshalFrom(fields)
DoUnmarshalFrom(p) ==
    /\ procs[p].i > Len(procs[p].doc)
    /\ procs[p].dec = Nil
    /\ procs' = [procs EXCEPT ![p].dec = unmarshalFrom(ZeroError, GoMap(procs[p].entries))]
    /\ last' = Call("unmarshalFrom", <<p>>)
    /\ UNCHANGED <<err, config, results, keyPosCounter, calls, am, clone, other, res, heap>>

NextConc == \E p \in 1..NumDecoders : DoDecodeMember(p) \/ DoUnmarshalFrom(p)

SpecConc == InitConc /\ [][NextConc]_vars

----------------------------------------------------------------------------
(* Claim about concurrent decoders                                         *)

\* the entries of the decoders, each with its decoder
AllEntries == UNION {{<<p, x>> : x \in procs[p].entries} : p \in 1..NumDecoders}

\* the sequence number of the name of member i of decoder p
PosOf(p, i) == (CHOOSE x \in procs[p].entries : x.key = procs[p].doc[i][1]).pos

\* C26: under every interleaving of the decoders every key has its own
\* sequence number, the numbers of the keys of one document increase
\* in document order, and the fields of each decoded Error are in the order
\* of the members of its own document.
C26_ConcurrentDecodersKeepOrder ==
    /\ \A a, b \in AllEntries : a # b => a[2].pos # b[2].pos
    /\ \A p \in 1..NumDecoders :
         /\ \A i, j \in 1..(procs[p].i - 1) : i < j => PosOf(p, i) < PosOf(p, j)
         /\ procs[p].dec # Nil =>
               Keys(procs[p].dec.fields) = [i \in 1..Len(procs[p].doc) |-> procs[p].doc[i][1]]

\* two decoders have decoded the same document of two members in turns, and
\* both have built their Error
C26_Witness ==
    /\ procs[1].doc = procs[2].doc /\ Len(procs[1].doc) = 2
    /\ procs[1].dec # Nil /\ procs[2].dec # Nil
    /\ PosOf(1, 1) < PosOf(2, 1) /\ PosOf(2, 1) < PosOf(1, 2) /\ PosOf(1, 2) < PosOf(2, 2)

----------------------------------------------------------------------------
(* Claim about the kind of an Error with an opaque cause                   *)

OwnDefault(e) == IF e.defaultKind # "" THEN e.defaultKind ELSE K.Other

\* C27 (as stated): if e has no explicit kind and its direct cause is an
\* opaque error, Kind(e) is the default kind of e if set and K.Other
\* otherwise, whatever the opaque cause wraps.
C27_OpaqueCauseEndsChain ==
    (err # Nil /\ err.kind = "" /\ err.cause.t = "error") => Kind(err) = OwnDefault(err)

\* C27 (amended): as stated if the opaque cause wraps no structured Error; if
\* it wraps one, kind resolution goes on in the first structured Error that
\* Unwrap reaches from the cause: Kind(e) is the explicit kind of that Error
\* if it has one, and the default kind of e if set and K.Other otherwise if
\* neither that Error nor an Error below it has a kind or a default kind.
C27_OpaqueCauseIsUnwrapped ==
    (err # Nil /\ err.kind = "" /\ err.cause.t = "error") =>
        LET w == As(err.cause)
        IN  IF w = Nil THEN Kind(err) = OwnDefault(err)
            ELSE /\ w.kind # "" => Kind(err) = w.kind
                 /\ (\A i \in 1..Len(KindChain(w)) :
                        KindChain(w)[i].kind = "" /\ KindChain(w)[i].defaultKind = "")
                       => Kind(err) = OwnDefault(err)

\* an Error with a default kind wraps an opaque error that wraps an Error of
\* kind I/O error: its kind is I/O error
C27_Witness ==
    /\ err # Nil /\ err.kind = "" /\ err.defaultKind = K.NotExist
    /\ err.cause.t = "error" /\ IsError(err.cause.wraps)
    /\ err.cause.wraps.kind = K.IO
    /\ Kind(err) = K.IO

----------------------------------------------------------------------------
(* Claim about the shape of the store                                      *)

\* C28: after any sequence of Append, Set, Delete and Clear from an empty
\* store, the store holds an even number of slots, a key in every odd slot and
\* its value in the next one, and the keys are pairwise distinct strings.
C28_StoreWellFormed ==
    /\ Len(am) % 2 = 0
    /\ \A i \in 1..(Len(am) \div 2) : am[2 * i - 1] \in STRING
    /\ \A i, j \in 1..(Len(am) \div 2) : i # j => am[2 * i - 1] # am[2 * j - 1]

\* a key without a value was appended, as the third call, to a store that
\* held one entry
C28_Witness ==
    /\ calls = 3
    /\ last = Call("Append", <<StringV("a single value")>>)
    /\ Len(am) = 4
    /\ am[3] = "a single value" /\ am[4] = StringV("<missing>")

----------------------------------------------------------------------------
(* Setters called on an Error that has its attributes or not: WithOp,     *)
(* WithKind, WithCause and With, with empty strings and nil among the     *)
(* arguments                                                               *)

\* the number of setter calls made on the Error
MaxSetCalls == 2

ErrClosed == Str("closed")

\* the arguments of With: the three structural keys, empty and non-empty
\* values of every type, nil
SetTokens == {StringV("op"), StringV("kind"), StringV("cause"), StringV(""),
              StringV("read"), IntV(7), Nil, KindV(""), KindV(K.Invalid), ErrClosed}

\* an Error without attributes, and the Error of TestE with all three
SetErrs == {NoTrace(<<>>), NoTrace(<<StringV("operation"), KindV(K.IO), EOF>>)}

InitSet ==
    /\ ConfigInit
    /\ err \in SetErrs
    /\ last = Call("none", <<>>)
    /\ out = ""
    /\ doc = Nil
    /\ fields = GoMap({})
    /\ dec = Nil
    /\ keyPosCounter = 0
    /\ calls = 0
    /\ RestInit

NextSet ==
    \/ DoWith(SetTokens, MaxSetCalls)
    \/ DoWithOp(MaxSetCalls)
    \/ DoWithKind(MaxSetCalls)
    \/ DoWithCause(MaxSetCalls)

SpecSet == InitSet /\ [][NextSet]_vars

----------------------------------------------------------------------------
(* Claim about op, kind and cause as attributes that are never cleared     *)

\* the value of a string attribute after a call that writes s to it
Written(old, s) == IF s = "" THEN old ELSE s

\* the attributes of e2 are those of e1
SameAttributes(e1, e2) == e2.op = e1.op /\ e2.kind = e1.kind /\ e2.cause = e1.cause

----------------------------------------------------------------------------
(* Threads that format one published Error. A formatter reads the Error    *)
(* and calls coalesceStack for every Error whose stack it prints; the call *)
(* tests e.trace and stores the trace if it is nil, without a lock.        *)
(* A thread is [call, todo, pc, out]: its call, the Errors that its calls  *)
(* of coalesceStack still go through, its position and its result.         *)

\* the number of threads
NumReaders == 2

\* one step from an Error to an Error that it holds: its cause, the value at
\* slot i of its fields, or element i of a slice
Sel(f, i) == [f |-> f, i |-> i]

\* the value that path leads to from v
RECURSIVE At(_, _)
At(v, path) ==
    IF path = <<>> THEN v
    ELSE LET s == Head(path)
         IN  At(CASE s.f = "cause" -> v.cause
                  [] s.f = "field" -> v.fields[s.i]
                  [] s.f = "elem" -> v.a[s.i],
                Tail(path))

\* v once trace is assigned to e.trace of the Error e that path leads to
RECURSIVE StoreAt(_, _, _)
StoreAt(v, path, trace) ==
    IF path = <<>> THEN [v EXCEPT !.trace = trace]
    ELSE LET s == Head(path)
         IN  CASE s.f = "cause" -> [v EXCEPT !.cause = StoreAt(@, Tail(path), trace)]
               [] s.f = "field" -> [v EXCEPT !.fields[s.i] = StoreAt(@, Tail(path), trace)]
               [] s.f = "elem" -> [v EXCEPT !.a[s.i] = StoreAt(@, Tail(path), trace)]

\* the slot of the value of key in the flat array of fields
ValueSlot(flds, key) ==
    1 + (CHOOSE i \in 1..Len(flds) : i % 2 = 1 /\ flds[i] = key)

\* the Errors that e.coalesceStack() goes through, in its order: e, then the
\* Errors that follow as direct causes
RECURSIVE coalesceVisits(_, _)
coalesceVisits(e, path) ==
    <<path>> \o (IF IsError(e.cause)
                 THEN coalesceVisits(e.cause, path \o <<Sel("cause", 0)>>)
                 ELSE <<>>)

RECURSIVE sprintVisits(_, _)
RECURSIVE toStringVisits(_, _, _, _)
RECURSIVE writeAllVisits(_, _, _, _)
RECURSIVE jsonMarshalVisits(_, _)
RECURSIVE marshalFieldsVisits(_, _, _)
RECURSIVE marshalAllVisits(_, _, _, _)

\* the Errors whose trace fmt.Sprint(val) tests
sprintVisits(val, path) ==
    CASE val.t = "Error" -> toStringVisits(val, path, TRUE, <<>>)
      [] val.t = "slice" ->
            LET RECURSIVE elems(_)
                elems(i) == IF i > Len(val.a) THEN <<>>
                            ELSE sprintVisits(val.a[i], path \o <<Sel("elem", i)>>)
                                 \o elems(i + 1)
            IN  elems(1)
      [] OTHER -> <<>>

\* the Errors whose trace the calls writeKeyVal(key, val) of toString test
writeAllVisits(e, path, kvs, i) ==
    IF i > Len(kvs) THEN <<>>
    ELSE (IF kvs[i][1] = "cause" /\ IsError(e.cause)
          THEN IF ~isZero(e.cause)
               THEN toStringVisits(e.cause, path \o <<Sel("cause", 0)>>, FALSE, <<>>)
               ELSE <<>>
          ELSE IF kvs[i][2].t \in {"Error", "slice"}
               THEN sprintVisits(kvs[i][2],
                                 path \o <<Sel("field", ValueSlot(e.fields, kvs[i][1]))>>)
               ELSE <<>>)
         \o writeAllVisits(e, path, kvs, i + 1)

\* the Errors whose trace e.toString(printStacktrace, fieldOrder...) tests
toStringVisits(e, path, printStacktrace, fieldOrder) ==
    writeAllVisits(e, path,
                   writeFields(e, IF Len(fieldOrder) = 0 THEN DefaultFieldOrder
                                  ELSE fieldOrder), 1)
    \o (IF printStacktrace /\ PrintStacktrace /\ ~e.ignoreStack /\ hasStack(e)
        THEN coalesceVisits(e, path)
        ELSE <<>>)

\* the Errors whose trace json.Marshal(val) tests
jsonMarshalVisits(val, path) ==
    CASE val.t = "Error" -> marshalFieldsVisits(val, path, TRUE)
      [] val.t = "slice" ->
            LET RECURSIVE elems(_)
                elems(i) == IF i > Len(val.a) THEN <<>>
                            ELSE jsonMarshalVisits(val.a[i], path \o <<Sel("elem", i)>>)
                                 \o elems(i + 1)
            IN  elems(1)
      [] OTHER -> <<>>

\* the Errors whose trace the calls kv(key, val) of marshalFields test
marshalAllVisits(e, path, kvs, i) ==
    IF i > Len(kvs) THEN <<>>
    ELSE (IF kvs[i][1] = "cause"
          THEN IF IsError(e.cause)
               THEN marshalFieldsVisits(e.cause, path \o <<Sel("cause", 0)>>, FALSE)
               ELSE <<>>
          ELSE IF kvs[i][2].t \in {"Error", "slice"}
               THEN jsonMarshalVisits(kvs[i][2],
                                      path \o <<Sel("field", ValueSlot(e.fields, kvs[i][1]))>>)
               ELSE <<>>)
         \o marshalAllVisits(e, path, kvs, i + 1)

\* the Errors whose trace e.marshalFields(marshalStack) tests
marshalFieldsVisits(e, path, marshalStack) ==
    marshalAllVisits(e, path, writeFields(e, DefaultFieldOrder), 1)
    \o (IF marshalStack /\ MarshalStacktrace /\ ~e.ignoreStack /\ hasStack(e)
        THEN coalesceVisits(e, path)
        ELSE <<>>)

\* the calls of a thread: [op, stack, order]
ReadCall(op, stack, order) == [op |-> op, stack |-> stack, order |-> order]

ReadCalls ==
    {ReadCall("Error", TRUE, <<>>), ReadCall("ErrorNoTrace", FALSE, <<>>),
     ReadCall("MarshalJSON", TRUE, <<>>)}
    \cup {ReadCall("FormatError", s, <<"cause", "">>) : s \in BOOLEAN}

\* the Errors whose trace the call c on e tests, in the order of the code
Visits(e, c) ==
    IF c.op = "MarshalJSON" THEN marshalFieldsVisits(e, <<>>, TRUE)
    ELSE toStringVisits(e, <<>>, c.stack, c.order)

\* what the call c on e returns
ResultOf(e, c) ==
    IF c.op = "MarshalJSON" THEN MarshalJSON(e)
    ELSE StringV(Error_toString(e, c.stack, c.order))

\* e.trace while a thread assigns the slice to it: the assignment writes
\* three words and is not atomic, so that a thread that reads e.trace in the
\* meantime may find a slice that is neither nil nor the trace
TornTrace == <<Frame("?", 0, 0)>>

\* the published Errors: a chain of two Errors with stacks, an Error without
\* a stack that holds an Error with a stack in a context field, and an Error
\* without any stack
ReadErrs ==
    {E(<<StringV("read"), KindV(K.IO), E(<<StringV("open"), EOF>>, InnerCallers)>>, Callers),
     NoTrace(<<StringV("send"), StringV("nested"), errConnect>>),
     NoTrace(<<StringV("plain"), StringV("key1"), IntV(7), EOF>>)}

IdleThread == [call |-> Nil, todo |-> <<>>, pc |-> "idle", out |-> Nil]

InitRead ==
    /\ PrintStacktrace \in BOOLEAN
    /\ MarshalStacktrace = TRUE
    /\ MarshalStacktraceAsArray = TRUE
    /\ DefaultFieldOrder = <<>>
    /\ err \in ReadErrs
    /\ procs = [p \in 1..NumReaders |-> IdleThread]
    /\ last = Call("none", <<>>)
    /\ out = ""
    /\ doc = Nil
    /\ fields = GoMap({})
    /\ dec = Nil
    /\ keyPosCounter = 0
    /\ calls = 0
    /\ am = <<>>
    /\ clone = Nil
    /\ other = Nil
    /\ res = Nil
    /\ heap = Nil

\* thread p calls Error(), ErrorNoTrace(), FormatError() or MarshalJSON() on
\* the published Error
DoCall(p) ==
    /\ procs[p].pc = "idle"
    /\ \E c \in ReadCalls :
         /\ procs' = [procs EXCEPT ![p] = [call |-> c, todo |-> Visits(err, c),
                                           pc |-> "test", out |-> Nil]]
         /\ last' = Call(c.op, <<p>>)
    /\ UNCHANGED <<err, config, results, keyPosCounter, calls, am, clone, other, res, heap>>

\* thread p evaluates e.trace == nil && e.pcs != nil in coalesceStack; of a
\* slice that another thread is assigning it may see the nil pointer or the
\* new one
DoTest(p) ==
    /\ procs[p].pc = "test"
    /\ procs[p].todo # <<>>
    /\ LET e == At(err, Head(procs[p].todo))
       IN  \E isNil \in (IF e.trace = TornTrace THEN BOOLEAN ELSE {e.trace = <<>>}) :
              procs' = [procs EXCEPT
                          ![p].pc = IF isNil /\ e.pcs # <<>> THEN "store" ELSE "test",
                          ![p].todo = IF isNil /\ e.pcs # <<>> THEN @ ELSE Tail(@)]
    /\ last' = Call("coalesceStack", <<p>>)
    /\ UNCHANGED <<err, config, results, keyPosCounter, calls, am, clone, other, res, heap>>

\* thread p starts the assignment e.trace = gostack.TraceFrom(e.pcs).TrimRuntime()
DoStore(p) ==
    /\ procs[p].pc = "store"
    /\ err' = StoreAt(err, Head(procs[p].todo), TornTrace)
    /\ procs' = [procs EXCEPT ![p].pc = "stored"]
    /\ last' = Call("coalesceStack", <<p>>)
    /\ UNCHANGED <<config, results, keyPosCounter, calls, am, clone, other, res, heap>>

\* thread p completes the assignment
DoStored(p) ==
    /\ procs[p].pc = "stored"
    /\ err' = StoreAt(err, Head(procs[p].todo), At(err, Head(procs[p].todo)).pcs)
    /\ procs' = [procs EXCEPT ![p].pc = "test", ![p].todo = Tail(@)]
    /\ last' = Call("coalesceStack", <<p>>)
    /\ UNCHANGED <<config, results, keyPosCounter, calls, am, clone, other, res, heap>>

\* the call of thread p returns what it has built from the traces it found
DoReturn(p) ==
    /\ procs[p].pc = "test"
    /\ procs[p].todo = <<>>
    /\ procs' = [procs EXCEPT ![p].pc = "done", ![p].out = ResultOf(err, procs[p].call)]
    /\ last' = Call("return", <<p>>)
    /\ UNCHANGED <<err, config, results, keyPosCounter, calls, am, clone, other, res, heap>>

NextRead ==
    \E p \in 1..NumReaders :
        DoCall(p) \/ DoTest(p) \/ DoStore(p) \/ DoStored(p) \/ DoReturn(p)

SpecRead == InitRead /\ [][NextRead]_vars

----------------------------------------------------------------------------
(* Claim about formatting and encoding as operations that only read        *)

\* C30: Error(), ErrorNoTrace(), FormatError() and MarshalJSON() change no
\* attribute of the Error nor of an Error that it holds, so that no step of a
\* thread that formats the published Error writes to it.
C30_FormattingReadOnly == [][err' = err]_vars
====
